---- MODULE Spec2Model ----
(***************************************************************************)
(* Scene choreography of the interactive diagrams.                         *)
(*                                                                         *)
(* Four pages are modelled, each with its own state and its own frame      *)
(* loop:                                                                   *)
(*   - the friction-zones page  (ZONES, switchZone, createZone, ...)       *)
(*   - the four-rungs page      (RUNGS, setViewMode, focusOnRung, ...)     *)
(*   - the pace-layer page      (CONFIG.layers, focusOnLayer, ...)         *)
(*   - the complementarity page (CONFIG.unobservables, checkHover, ...)    *)
(*                                                                         *)
(* Time is counted in units of 50 ms.  A tween of the animation library is *)
(* a record [obj, to, dur, el, from]: it is created by a handler, rendered *)
(* by every frame of the ticker in creation order, reads its start value   *)
(* at its first render, and is removed (and its onComplete run) when its   *)
(* elapsed time reaches its duration.  Tweens of the same target are not   *)
(* overwritten by later ones (the library's default, overwrite: false).    *)
(*                                                                         *)
(* Lengths are in thousandths of a world unit, opacities in hundredths.    *)
(***************************************************************************)
EXTENDS Integers, Sequences, FiniteSets, TLC

\* ------------------------------------------------------------------------
\* Bounds of the model
\* ------------------------------------------------------------------------
MaxBuilds == 3          \* zone groups ever created on the friction-zones page
MaxZTweens == 2         \* slide tweens alive at once on the friction-zones page
ZFrameDt == 4           \* time between two frames of the friction-zones page
ParticlesPerZone == 2   \* particles a zone scene creates

\* ------------------------------------------------------------------------
\* Generic helpers
\* ------------------------------------------------------------------------
Min(a, b) == IF a < b THEN a ELSE b

Cube(n) == n * n * n

\* 'power2.in' : progress p -> p^3, applied to a displacement
Power2In(el, dur, delta) == (delta * Cube(el)) \div Cube(dur)

\* 'power2.out' : progress p -> 1 - (1 - p)^3
Power2Out(el, dur, delta) == delta - ((delta * Cube(dur - el)) \div Cube(dur))

\* Array.prototype.indexOf: the first index (from 0) holding e, or -1
IndexOf(s, e) ==
    CHOOSE r \in {IF \E i \in 1..Len(a) : a[i] = e
                   THEN (CHOOSE i \in 1..Len(a) :
                            a[i] = e /\ \A j \in 1..(i - 1) : a[j] # e) - 1
                   ELSE -1 : a \in {s}} : TRUE

\* Array.prototype.splice(index, 1), index counted from 0
RemoveAt(s, idx) ==
    [j \in 1..(Len(s) - 1) |-> IF j <= idx THEN s[j] ELSE s[j + 1]]

\* the camera of the pace-layer page and of the four-rungs page:
\* PerspectiveCamera(50, aspect, 0.1, 100), in tenths of a world unit
CameraNear == 1
CameraFar == 1000

Dot(a, b) == a[1] * b[1] + a[2] * b[2] + a[3] * b[3]

Sub(a, b) == <<a[1] - b[1], a[2] - b[2], a[3] - b[3]>>

\* Math.sqrt, rounded down: Newton's iteration from above
RECURSIVE ISqrtFrom(_, _)
ISqrtFrom(n, r) ==
    IF r * r <= n THEN r ELSE ISqrtFrom(n, (r + n \div r) \div 2)

ISqrt(n) == ISqrtFrom(n, Min(n, 40000))

\* the distance of the point p in front of a camera at c that looks at t,
\* negative behind the camera: w of the projected point
ViewDepth(p, c, t) ==
    IF ISqrt(Dot(Sub(t, c), Sub(t, c))) = 0 THEN 0
    ELSE Dot(Sub(p, c), Sub(t, c)) \div ISqrt(Dot(Sub(t, c), Sub(t, c)))

\* Vector3.project(camera).z < 1 for a point at the depth d: z is
\* ((far + near) * d - 2 * far * near) / ((far - near) * d), the division by
\* a negative d turns the comparison, and d = 0 gives -Infinity
NdcDepthBelowOne(d) ==
    IF d > 0
    THEN (CameraFar + CameraNear) * d - 2 * CameraFar * CameraNear
            < (CameraFar - CameraNear) * d
    ELSE IF d < 0
    THEN (CameraFar + CameraNear) * d - 2 * CameraFar * CameraNear
            > (CameraFar - CameraNear) * d
    ELSE TRUE

\* ========================================================================
\* FRICTION-ZONES PAGE
\* ========================================================================
ZONE_ORDER == <<"seamless", "visible", "gated", "human-only">>

ZONES == {ZONE_ORDER[i] : i \in 1..Len(ZONE_ORDER)}

\* an id that is no key of ZONES
BogusZone == "bogus"

ZoneArgs == ZONES \cup {BogusZone}

slideDistance == 8000

SlideDuration == 10

GATE_SNAP_POINTS == <<0, 50, 100>>

VARIABLE page    \* the page the browser shows

VARIABLES
    currentZone,      \* id of the zone shown (or being switched to)
    zoneGroup,        \* index into groupInfo of the current THREE.Group, 0 = null
    groupInfo,        \* every group created so far: [x, content, platform]
    sceneChildren,    \* scene.children, in order: [kind, id]
    particles,        \* the particles list: set of <<group, k>>
    isTransitioning,  \* re-entrancy guard of switchZone
    gateOpenAmount,   \* in hundredths
    activeBtn,        \* zone id of the .view-btn that carries 'active'
    controlsVisible,  \* #zoneControls carries 'visible'
    detailVisible,    \* #detailPanel carries 'visible'
    zTweens,          \* slide tweens on the timeline, in creation order
    zCrashed,         \* an onComplete callback threw in the last frame
    zLast,            \* the last handler that ran, with its argument
    zBurst,           \* first two switchZone arguments since the page was last idle
    zFrom,            \* zone and group that were shown when zBurst began
    zLog              \* steps of the switch performed since zBurst began

zvars == <<currentZone, zoneGroup, groupInfo, sceneChildren, particles,
           isTransitioning, gateOpenAmount, activeBtn, controlsVisible,
           detailVisible, zTweens, zCrashed, zLast, zBurst,
           zFrom, zLog>>

\* the part of the page state that a handler can change
zoneState == <<currentZone, zoneGroup, groupInfo, sceneChildren, particles,
               isTransitioning, gateOpenAmount, activeBtn, controlsVisible,
               detailVisible, zTweens>>

\* the pace-layer page
VARIABLES
    focusedLayerIndex,  \* -1 = none
    hoveredLayerIndex,  \* -1 = none
    cursor,             \* canvas.style.cursor
    lPanelVisible,      \* detailPanel carries 'visible'
    edgeOpacity,        \* edge.material.opacity of every layer
    edgeTarget,         \* opacity last handed to the animation library, per layer
    lTweens,            \* opacity tweens on the timeline, in creation order
    labelClasses,       \* layer -> the 'hovered' and 'dimmed' classes of its label
    lCalls,             \* handler calls so far
    lLast,              \* the last handler: its name, its pick, the focus before
    lCamera,            \* camera.position and controls.target
    labelsVisible       \* the layer labels carry 'visible'

lvars == <<focusedLayerIndex, hoveredLayerIndex, cursor, lPanelVisible,
           edgeOpacity, edgeTarget, lTweens, labelClasses, lCalls, lLast,
           lCamera, labelsVisible>>

layerState == <<focusedLayerIndex, hoveredLayerIndex, cursor, lPanelVisible,
                edgeOpacity, edgeTarget, lTweens>>

\* the four-rungs page
VARIABLES
    focusedRung,        \* a rung id, or "null"
    currentView,
    flowDirection,
    cameraPosition,     \* camera.position
    controlsTarget,     \* controls.target
    material,           \* rung id -> <<opacity, emissiveIntensity>>
    rPanelVisible,      \* detailPanel carries 'visible'
    introPlayed,        \* the 100 ms timer of init has fired
    rTweens,            \* tweens on the timeline, in creation order
    materialTarget,     \* rung id -> the values last handed to the library
    cameraRequest,      \* the camera transition last requested
    rCalls,             \* calls so far
    rLast,              \* the last call: its name, argument, the focus before
    rLeft,              \* the rung the last call took the focus from with
                        \* clearFocus, "null" after any other call
    rLabelOpacity,      \* label -> style.opacity as updateLabels wrote it last
    rFrameLog,          \* the steps of the last call of animate, in order
    insightVisible,     \* insightOverlay carries 'visible'
    insightTimers       \* 800 ms timers of setViewMode('current') still pending

rvars == <<focusedRung, currentView, flowDirection, cameraPosition,
           controlsTarget, material, rPanelVisible, introPlayed, rTweens,
           materialTarget, cameraRequest, rCalls, rLast, rLeft,
           rLabelOpacity, rFrameLog, insightVisible, insightTimers>>

\* the variables the page's functions are about (histories left out)
rungState == <<focusedRung, currentView, flowDirection, cameraPosition,
               controlsTarget, material, rPanelVisible, rTweens>>

\* the complementarity page
VARIABLES
    mouseOver,            \* the orb the ray through the mouse hits first, or "none"
    hoveredUnobservable,  \* an unobservable's id, or "null"
    bodyCursor,           \* document.body.style.cursor
    orbScale,             \* id -> group.scale, in thousandths
    orbEmissive,          \* id -> orb.material.emissiveIntensity, in hundredths
    orbOpacity,           \* id -> orb.material.opacity, in hundredths
    labelHovered,         \* id -> the label carries 'hovered'
    tooltipVisible,       \* the tooltip carries 'visible'
    cLog,                 \* the steps of the last frame, in the order they ran
    cFrames,              \* frames so far
    cMoves,               \* pointer moves so far
    cLast                 \* the last step: "init", "mousemove" or "frame"

cvars == <<mouseOver, hoveredUnobservable, bodyCursor, orbScale, orbEmissive,
           orbOpacity, labelHovered, tooltipVisible, cLog, cFrames, cMoves,
           cLast>>

\* the procedural animation of the three pages, frame by frame
VARIABLES
    orbTime,            \* complementarity page: time, in milliseconds
    orbRotationY,       \* orb index -> group.rotation.y, in 1/10000 rad
    orbBobPhase,        \* orb index -> the argument of the sine of position.y
    diskFrames,         \* pace-layer page: calls of animate so far
    diskRotationZ,      \* layer -> group.rotation.z, in millionths of a rad
    particleFrames,     \* four-rungs page: calls of animate so far
    particleY           \* particle.position.y of one beam particle, in thousandths

pvars == <<orbTime, orbRotationY, orbBobPhase, diskFrames, diskRotationZ,
           particleFrames, particleY>>

\* the animate helper of the shared utilities, one animation
VARIABLES
    animationId,        \* the id the last requestAnimationFrame returned
    aRequested,         \* the ids of the frames requested and not yet run or cancelled
    aElapsed,           \* currentTime - startTime at the last tick, in milliseconds
    aUpdates,           \* calls of onUpdate so far
    aCompleted,         \* onComplete has been called
    aCancelled,         \* the returned function has been invoked
    aCalledAfterCancel  \* onUpdate or onComplete was called after that

avars == <<animationId, aRequested, aElapsed, aUpdates, aCompleted,
           aCancelled, aCalledAfterCancel>>

\* the tooltip manager of the shared components
VARIABLES
    listeners,          \* element -> the handler pairs registered on it
    attachedElements,   \* element -> the handler pair the Map holds, 0 for none
    handlersCreated,    \* handler pairs created so far
    tooltipShown,       \* the tooltip is visible
    tLast               \* the last call: its name and its element

tvars == <<listeners, attachedElements, handlersCreated, tooltipShown, tLast>>

\* the particles of the gated zone under animateGated
VARIABLES
    gCreated,           \* createGatedZone has built the particles
    gProgress,          \* particle -> userData.progress, in 1/100000
    gSpeed,             \* particle -> userData.speed, in 1/100000
    gGate,              \* gateOpenAmount, in hundredths
    gFrames,            \* calls of animateGated so far
    gLast               \* the last step: "init", "create", "gate" or "frame"

gvars == <<gCreated, gProgress, gSpeed, gGate, gFrames, gLast>>

\* a step of one page leaves the other pages as they are
OnZones ==
    page = "zones" /\ UNCHANGED <<page, lvars, rvars, cvars, pvars, avars,
        tvars, gvars>>

OnLayers ==
    page = "layers" /\ UNCHANGED <<page, zvars, rvars, cvars, pvars, avars,
        tvars, gvars>>

OnRungs ==
    page = "rungs" /\ UNCHANGED <<page, zvars, lvars, cvars, pvars, avars,
        tvars, gvars>>

OnComplementarity ==
    page = "complementarity" /\ UNCHANGED <<page, zvars, lvars, rvars,
        pvars, avars, tvars, gvars>>

OnProcedural ==
    page = "procedural" /\ UNCHANGED <<page, zvars, lvars, rvars, cvars,
        avars, tvars, gvars>>

OnHelper ==
    page = "helper" /\ UNCHANGED <<page, zvars, lvars, rvars, cvars, pvars,
        tvars, gvars>>

OnTooltip ==
    page = "tooltip" /\ UNCHANGED <<page, zvars, lvars, rvars, cvars,
        pvars, avars, gvars>>

OnGate ==
    page = "gate" /\ UNCHANGED <<page, zvars, lvars, rvars, cvars, pvars,
        avars, tvars>>

Light(n) == [kind |-> "light", id |-> n]
PointLight(n) == [kind |-> "point", id |-> n]
GroupObj(g) == [kind |-> "group", id |-> g]

\* THREE.Object3D.remove
SceneRemove(children, obj) ==
    LET idx == IndexOf(children, obj)
    IN IF idx = -1 THEN children ELSE RemoveAt(children, idx)

\* scene.children.forEach(child => { if (child.isPointLight) scene.remove(child) })
\* forEach visits index i only while i is inside the (shrinking) array
ForEachRemoveNone(children, i, len) == children

RECURSIVE ForEachRemovePoint(_, _, _)
ForEachRemovePoint(children, i, len) ==
    IF i > len \/ i > Len(children) THEN children
    ELSE IF children[i].kind = "point"
         THEN CHOOSE r \in {ForEachRemovePoint(c, i + 1, len) :
                              c \in {SceneRemove(children, children[i])}} : TRUE
         ELSE ForEachRemovePoint(children, i + 1, len)

\* updateZoneLight: the new light is named after the group it is built for
updateZoneLight(children, g) ==
    Append(ForEachRemovePoint(children, 1, Len(children)), PointLight(g))

\* the groups attached to the scene
AttachedGroups == {sceneChildren[i].id : i \in {j \in 1..Len(sceneChildren) :
                                              sceneChildren[j].kind = "group"}}

ZoneParticles(g) == {<<g, k>> : k \in 1..ParticlesPerZone}

\* createZone, first statement: if (zoneGroup) { scene.remove(zoneGroup); }
ClearExistingKeep(children, zg) == children

ClearExisting(children, zg) ==
    IF zg # 0 THEN SceneRemove(children, GroupObj(zg)) ELSE children

\* createZone(zoneId) on the page state st = [children, groupInfo, particles,
\* zoneGroup], once the old zone is cleared and the new, empty group g is
\* attached (c2 = scene.children then).  ZONES[zoneId] is undefined for an
\* unknown id, so reading zone.color in createPlatform(zone.color) throws.
CreateZoneOn(zoneId, st, g, c2) ==
    IF zoneId \in ZONES
    THEN [children  |-> updateZoneLight(c2, g),
          groupInfo |-> Append(st.groupInfo,
                          [x |-> 0, content |-> zoneId, platform |-> TRUE]),
          particles |-> ZoneParticles(g),
          zoneGroup |-> g,
          threw     |-> FALSE]
    ELSE [children  |-> c2,
          groupInfo |-> Append(st.groupInfo,
                          [x |-> 0, content |-> "none", platform |-> FALSE]),
          particles |-> {},
          zoneGroup |-> g,
          threw     |-> TRUE]

createZone(zoneId, st) ==
    CHOOSE r \in {CreateZoneOn(zoneId, s, g, c2) :
                     s \in {st},
                     g \in {Len(st.groupInfo) + 1},
                     c2 \in {Append(ClearExisting(st.children, st.zoneGroup),
                                    GroupObj(Len(st.groupInfo) + 1))}} : TRUE

\* init(): setupLighting() adds three lights, then createZone(currentZone)
InitialZone ==
    createZone("seamless",
               [children  |-> <<Light(1), Light(2), Light(3)>>,
                groupInfo |-> <<>>,
                particles |-> {},
                zoneGroup |-> 0])

\* first line of switchZone: the call returns at once when this holds
SwitchGuardNone(zoneId) == FALSE

SwitchGuardSameOnly(zoneId) == zoneId = currentZone

SwitchGuard(zoneId) == zoneId = currentZone \/ isTransitioning

\* direction = nextZoneIndex > prevZoneIndex ? 1 : -1
Direction(from, to) ==
    IF IndexOf(ZONE_ORDER, to) > IndexOf(ZONE_ORDER, from) THEN 1 ELSE -1

\* x the outgoing group slides to
SlideOutX(direction) == (0 - direction) * slideDistance

\* x the incoming group is placed at before it slides in
OffscreenXSameSide(direction) == (0 - direction) * slideDistance

OffscreenX(direction) == direction * slideDistance

\* updateZoneControls: only the gated zone shows the gate controls
updateZoneControls(zoneId) == zoneId = "gated"

\* findNearestSnapPoint
RECURSIVE NearestFrom(_, _, _, _)
NearestFrom(value, i, closest, minDist) ==
    IF i > Len(GATE_SNAP_POINTS) THEN closest
    ELSE LET d0 == value - GATE_SNAP_POINTS[i]
             dist == IF d0 < 0 THEN 0 - d0 ELSE d0
         IN IF dist < minDist
            THEN NearestFrom(value, i + 1, GATE_SNAP_POINTS[i], dist)
            ELSE NearestFrom(value, i + 1, closest, minDist)

findNearestSnapPoint(value) ==
    LET d0 == value - GATE_SNAP_POINTS[1]
    IN NearestFrom(value, 2, GATE_SNAP_POINTS[1], IF d0 < 0 THEN 0 - d0 ELSE d0)

\* the slide-out tween started by switchZone; its onComplete closes over
\* zoneId and direction
SlideOutTween(g, zoneId, direction) ==
    [kind |-> "out", obj |-> g, to |-> SlideOutX(direction), dur |-> SlideDuration,
     el |-> 0, init |-> FALSE, from |-> 0, zoneId |-> zoneId, direction |-> direction]

\* the slide-in tween started by the slide-out's onComplete
SlideInTween(g, zoneId, direction) ==
    [kind |-> "in", obj |-> g, to |-> 0, dur |-> SlideDuration,
     el |-> 0, init |-> FALSE, from |-> 0, zoneId |-> zoneId, direction |-> direction]

\* value a slide tween writes at elapsed time el
SlideValue(tw, from, el) ==
    IF el >= tw.dur THEN tw.to
    ELSE IF tw.kind = "out"
         THEN from + Power2In(el, tw.dur, tw.to - from)
         ELSE from + Power2Out(el, tw.dur, tw.to - from)

\* onComplete of the slide-in tween
SlideInDoneStuck(st) == st

SlideInDone(st) == [st EXCEPT !.isTransitioning = FALSE,
                              !.log = Append(@, "cleared")]

\* onComplete of the slide-out tween: createZone(zoneId); place the new
\* group off-screen; start the slide-in
SlideOutApply(tw, st, cz) ==
    LET removed == IF GroupObj(st.zoneGroup) \in
                         {cz.children[i] : i \in 1..Len(cz.children)}
                   THEN <<"outDone">> ELSE <<"outDone", "removed">>
    IN IF cz.threw
       THEN [st EXCEPT !.children = cz.children, !.groupInfo = cz.groupInfo,
                       !.particles = cz.particles, !.zoneGroup = cz.zoneGroup,
                       !.crashed = TRUE, !.log = @ \o removed]
       ELSE [st EXCEPT !.children = cz.children,
                       !.groupInfo = [cz.groupInfo EXCEPT
                                        ![cz.zoneGroup].x = OffscreenX(tw.direction)],
                       !.particles = cz.particles, !.zoneGroup = cz.zoneGroup,
                       !.added = Append(@, SlideInTween(cz.zoneGroup, tw.zoneId,
                                                        tw.direction)),
                       !.log = @ \o removed \o <<"built", "placed", "slideIn">>]

SlideOutDone(tw, st) ==
    CHOOSE r \in {SlideOutApply(tw, s, cz) :
                     s \in {st}, cz \in {createZone(tw.zoneId, st)}} : TRUE

\* one render of one tween: read the start value at the first render, write
\* the eased value, and on reaching the duration drop the tween and run its
\* onComplete
RenderStep(tw, st, el, from) ==
    IF el < tw.dur
    THEN [st EXCEPT !.groupInfo[tw.obj].x = SlideValue(tw, from, el),
                    !.kept = Append(@, [tw EXCEPT !.el = el, !.init = TRUE,
                                                  !.from = from])]
    ELSE IF tw.kind = "out"
         THEN SlideOutDone(tw, [st EXCEPT !.groupInfo[tw.obj].x = tw.to])
         ELSE SlideInDone([st EXCEPT !.groupInfo[tw.obj].x = tw.to,
                                     !.log = Append(@, "inDone")])

RenderTween(tw, st) ==
    CHOOSE r \in {RenderStep(t, s, el, from) :
                     t \in {tw}, s \in {st},
                     el \in {Min(tw.el + ZFrameDt, tw.dur)},
                     from \in {IF tw.init THEN tw.from
                               ELSE st.groupInfo[tw.obj].x}} : TRUE

\* one frame of the ticker: every tween that was alive when the frame began is
\* rendered, in creation order; a callback that throws ends the frame, the
\* tweens behind it keep their state for the next frame
RECURSIVE RenderAll(_, _)
RenderAll(tws, st) ==
    IF tws = <<>> THEN st
    ELSE IF st.crashed THEN [st EXCEPT !.kept = @ \o tws]
    ELSE CHOOSE r \in {RenderAll(rest, s1) :
                         rest \in {Tail(tws)},
                         s1 \in {RenderTween(Head(tws), st)}} : TRUE

MaxLog == 9

Cap(s, n) == IF Len(s) > n THEN SubSeq(s, 1, n) ELSE s

\* ---- handlers ----------------------------------------------------------

switchZone(zoneId) ==
    /\ OnZones
    /\ IF SwitchGuard(zoneId)
       THEN /\ UNCHANGED zoneState
            /\ zLog' = IF isTransitioning THEN zLog ELSE <<>>
       ELSE LET direction == Direction(currentZone, zoneId)
            IN /\ Len(groupInfo) < MaxBuilds
               /\ Len(zTweens) < MaxZTweens
               /\ isTransitioning' = TRUE
               /\ currentZone' = zoneId
               /\ gateOpenAmount' = 0
               /\ activeBtn' = zoneId
               /\ controlsVisible' = updateZoneControls(zoneId)
               /\ detailVisible' = FALSE
               /\ zTweens' = Append(zTweens,
                                    SlideOutTween(zoneGroup, zoneId, direction))
               /\ zLog' = Cap((IF isTransitioning THEN zLog ELSE <<>>)
                              \o <<"slideOut">>, MaxLog)
               /\ UNCHANGED <<zoneGroup, groupInfo, sceneChildren, particles>>
    /\ zBurst' = IF isTransitioning THEN Cap(Append(zBurst, zoneId), 2)
                 ELSE <<zoneId>>
    /\ zFrom' = IF isTransitioning THEN zFrom
                ELSE [zone |-> currentZone, group |-> zoneGroup]
    /\ zLast' = [op |-> "switchZone", arg |-> zoneId]
    /\ zCrashed' = FALSE

\* showDetail(zoneId): nothing happens for an id that is no key of ZONES
showDetail(zoneId) ==
    IF zoneId \in ZONES
    THEN detailVisible' = TRUE
    ELSE UNCHANGED detailVisible

\* onCanvasClick: a click within 0.3 canvas widths of the centre shows the
\* detail of the current zone
onCanvasClick(nearCentre) ==
    /\ OnZones
    /\ IF nearCentre THEN showDetail(currentZone)
       ELSE UNCHANGED detailVisible
    /\ UNCHANGED <<currentZone, zoneGroup, groupInfo, sceneChildren, particles,
                   isTransitioning, gateOpenAmount, activeBtn, controlsVisible,
                   zTweens, zBurst, zFrom, zLog>>
    /\ zLast' = [op |-> IF nearCentre THEN "click" ELSE "clickOutside",
                 arg |-> ""]
    /\ zCrashed' = FALSE

closeDetail ==
    /\ OnZones
    /\ detailVisible' = FALSE
    /\ UNCHANGED <<currentZone, zoneGroup, groupInfo, sceneChildren, particles,
                   isTransitioning, gateOpenAmount, activeBtn, controlsVisible,
                   zTweens, zBurst, zFrom, zLog>>
    /\ zLast' = [op |-> "closeDetail", arg |-> ""]
    /\ zCrashed' = FALSE

\* slider positions the gate handlers are called with
GateInputs == {30}

updateGate(value, shouldSnap) ==
    /\ OnZones
    /\ gateOpenAmount' = IF shouldSnap THEN findNearestSnapPoint(value) ELSE value
    /\ UNCHANGED <<currentZone, zoneGroup, groupInfo, sceneChildren, particles,
                   isTransitioning, activeBtn, controlsVisible, detailVisible,
                   zTweens, zBurst, zFrom, zLog>>
    /\ zLast' = [op |-> "updateGate", arg |-> ""]
    /\ zCrashed' = FALSE

\* one frame of the animation library's ticker on this page
\* the page state a frame works on
ZFrameState ==
    [children |-> sceneChildren, groupInfo |-> groupInfo,
     particles |-> particles, zoneGroup |-> zoneGroup,
     isTransitioning |-> isTransitioning, kept |-> <<>>,
     added |-> <<>>, crashed |-> FALSE, log |-> zLog]

ZTick ==
    /\ OnZones
    /\ \E tws \in {zTweens}, st0 \in {ZFrameState} :
       \E st \in {RenderAll(tws, st0)} :
          /\ sceneChildren' = st.children
          /\ groupInfo' = st.groupInfo
          /\ particles' = st.particles
          /\ zoneGroup' = st.zoneGroup
          /\ isTransitioning' = st.isTransitioning
          /\ zTweens' = st.kept \o st.added
          /\ zCrashed' = st.crashed
          /\ zLog' = Cap(st.log, MaxLog)
          /\ zLast' = [op |-> "tick", arg |-> ""]
          /\ UNCHANGED <<currentZone, gateOpenAmount, activeBtn, controlsVisible,
                         detailVisible, zBurst, zFrom>>

ZInit ==
    /\ currentZone = "seamless"
    /\ zoneGroup = InitialZone.zoneGroup
    /\ groupInfo = InitialZone.groupInfo
    /\ sceneChildren = InitialZone.children
    /\ particles = InitialZone.particles
    /\ isTransitioning = FALSE
    /\ gateOpenAmount = 0
    /\ activeBtn = "seamless"
    /\ controlsVisible = FALSE
    /\ detailVisible = FALSE
    /\ zTweens = <<>>
    /\ zCrashed = FALSE
    /\ zLast = [op |-> "init", arg |-> "seamless"]
    /\ zBurst = <<>>
    /\ zFrom = [zone |-> "seamless", group |-> InitialZone.zoneGroup]
    /\ zLog = <<>>

\* ========================================================================
\* PACE-LAYER PAGE
\* ========================================================================

\* CONFIG.layers[i].radius, outermost first, in tenths
LayerRadii == <<48, 40, 32, 24, 16, 8>>

\* indices of CONFIG.layers
Layers == 0..(Len(LayerRadii) - 1)

EdgeInitial == 6      \* edgeMaterial opacity at creation
EdgeIdle == 8         \* resetHighlight, exitFocus
EdgeHovered == 25     \* highlightLayer, the hovered layer
EdgeUnhovered == 5    \* highlightLayer, the other layers
EdgeFocused == 40     \* focusOnLayer, the focused layer
EdgeUnfocused == 2    \* focusOnLayer, the other layers

HoverDuration == 6    \* 0.3 s
FocusDuration == 8    \* 0.4 s

MaxLCalls == 2        \* handler calls on the pace-layer page
LFrameDt == 3         \* time between two frames of the pace-layer page
MaxHits == 2          \* intersections one ray reports

LayerRadius(idx) == LayerRadii[idx + 1]

\* what raycaster.intersectObjects(disks) can report: up to MaxHits distinct
\* disks, in any order
RECURSIVE HitSeqs(_)
HitSeqs(n) ==
    IF n = 0 THEN {<<>>}
    ELSE LET shorter == HitSeqs(n - 1)
         IN shorter \cup
            {Append(h, i) : h \in {q \in shorter : Len(q) = n - 1}, i \in Layers}

Intersections ==
    {h \in HitSeqs(MaxHits) : \A i, j \in 1..Len(h) : i # j => h[i] # h[j]}

\* the picking loop of onCanvasClick and onCanvasHover: the first intersected
\* disk whose radius is strictly smaller than every one before it wins
RECURSIVE PickLoop(_, _, _, _)
PickLoop(intersects, k, best, smallestRadius) ==
    IF k > Len(intersects) THEN best
    ELSE IF LayerRadius(intersects[k]) < smallestRadius
         THEN PickLoop(intersects, k + 1, intersects[k], LayerRadius(intersects[k]))
         ELSE PickLoop(intersects, k + 1, best, smallestRadius)

Infinity == 1000000

PickSmallest(intersects) == PickLoop(intersects, 1, -1, Infinity)

\* gsap.to(edge.material, {opacity, duration}) for every layer
EdgeTweens(to, dur) ==
    [k \in 1..Len(LayerRadii) |->
        [obj |-> k - 1, to |-> to[k - 1], dur |-> dur, el |-> 0,
         init |-> FALSE, from |-> 0]]

\* the library's default ease 'power1.out': p -> 1 - (1 - p)^2
Power1Out(el, dur, delta) ==
    delta - ((delta * (dur - el) * (dur - el)) \div (dur * dur))

highlightTargets(index) ==
    [i \in Layers |-> IF i = index THEN EdgeHovered ELSE EdgeUnhovered]

resetTargets == [i \in Layers |-> EdgeIdle]

\* focusOnLayer: opacity: i === index ? 0.4 : 0.02
focusTargetsKeep(index) ==
    [i \in Layers |-> IF i = index \/ edgeTarget[i] = EdgeFocused
                      THEN EdgeFocused ELSE EdgeUnfocused]

focusTargets(index) ==
    [i \in Layers |-> IF i = index THEN EdgeFocused ELSE EdgeUnfocused]

\* first line of onCanvasHover: if (focusedLayerIndex >= 0) return
HoverSuppressedNever == FALSE

HoverSuppressed == focusedLayerIndex >= 0

focusOnLayer(index) ==
    /\ focusedLayerIndex' = index
    /\ lPanelVisible' = TRUE
    /\ edgeTarget' = focusTargets(index)
    /\ lTweens' = lTweens \o EdgeTweens(focusTargets(index), FocusDuration)
    /\ UNCHANGED <<hoveredLayerIndex, cursor, edgeOpacity>>

exitFocus ==
    /\ focusedLayerIndex' = -1
    /\ lPanelVisible' = FALSE
    /\ edgeTarget' = resetTargets
    /\ lTweens' = lTweens \o EdgeTweens(resetTargets, FocusDuration)
    /\ UNCHANGED <<hoveredLayerIndex, cursor, edgeOpacity>>

\* the layer of smallest radius among the intersected ones, -1 when the ray
\* intersects none: recorded with each pick for the properties
SmallestLayer(hits) ==
    IF hits = <<>> THEN -1
    ELSE CHOOSE i \in {hits[k] : k \in 1..Len(hits)} :
            \A k \in 1..Len(hits) : LayerRadius(i) <= LayerRadius(hits[k])

L_onCanvasClick(intersects) ==
    /\ OnLayers
    /\ UNCHANGED <<lCamera, labelsVisible>>
    /\ UNCHANGED labelClasses
    /\ lCalls < MaxLCalls
    /\ lCalls' = lCalls + 1
    /\ lLast' = [op |-> "click", hit |-> PickSmallest(intersects),
                 was |-> focusedLayerIndex,
                 smallest |-> SmallestLayer(intersects)]
    /\ IF Len(intersects) > 0
       THEN IF PickSmallest(intersects) >= 0
            THEN focusOnLayer(PickSmallest(intersects))
            ELSE UNCHANGED layerState
       ELSE IF focusedLayerIndex >= 0 THEN exitFocus
       ELSE UNCHANGED layerState

closePanel ==
    /\ OnLayers
    /\ UNCHANGED <<lCamera, labelsVisible>>
    /\ UNCHANGED labelClasses
    /\ lCalls < MaxLCalls
    /\ lCalls' = lCalls + 1
    /\ lLast' = [op |-> "close", hit |-> -1, was |-> focusedLayerIndex]
    /\ exitFocus

onCanvasHover(intersects) ==
    /\ OnLayers
    /\ UNCHANGED <<lCamera, labelsVisible>>
    /\ UNCHANGED labelClasses
    /\ lCalls < MaxLCalls
    /\ lCalls' = lCalls + 1
    /\ lLast' = [op |-> "hover", hit |-> PickSmallest(intersects),
                 was |-> focusedLayerIndex,
                 smallest |-> SmallestLayer(intersects)]
    /\ IF HoverSuppressed THEN UNCHANGED layerState
       ELSE IF Len(intersects) > 0
       THEN IF PickSmallest(intersects) # hoveredLayerIndex
            THEN /\ hoveredLayerIndex' = PickSmallest(intersects)
                 /\ cursor' = "pointer"
                 /\ edgeTarget' = highlightTargets(PickSmallest(intersects))
                 /\ lTweens' = lTweens \o
                       EdgeTweens(highlightTargets(PickSmallest(intersects)),
                                  HoverDuration)
                 /\ UNCHANGED <<focusedLayerIndex, lPanelVisible, edgeOpacity>>
            ELSE UNCHANGED layerState
       ELSE IF hoveredLayerIndex >= 0
       THEN /\ hoveredLayerIndex' = -1
            /\ cursor' = "default"
            /\ edgeTarget' = resetTargets
            /\ lTweens' = lTweens \o EdgeTweens(resetTargets, HoverDuration)
            /\ UNCHANGED <<focusedLayerIndex, lPanelVisible, edgeOpacity>>
       ELSE UNCHANGED layerState

\* one render of an opacity tween on the opacities op; kept collects the
\* tweens that stay alive
LRenderStep(tw, acc, el, from) ==
    [op   |-> [acc.op EXCEPT ![tw.obj] =
                  IF el >= tw.dur THEN tw.to
                  ELSE from + Power1Out(el, tw.dur, tw.to - from)],
     kept |-> IF el >= tw.dur THEN acc.kept
              ELSE Append(acc.kept, [tw EXCEPT !.el = el, !.init = TRUE,
                                               !.from = from])]

LRenderTween(tw, acc) ==
    CHOOSE r \in {LRenderStep(t, a, el, from) :
                     t \in {tw}, a \in {acc},
                     el \in {Min(tw.el + LFrameDt, tw.dur)},
                     from \in {IF tw.init THEN tw.from ELSE acc.op[tw.obj]}} : TRUE

RECURSIVE LRenderAll(_, _)
LRenderAll(tws, acc) ==
    IF tws = <<>> THEN acc
    ELSE CHOOSE r \in {LRenderAll(rest, a1) :
                         rest \in {Tail(tws)},
                         a1 \in {LRenderTween(Head(tws), acc)}} : TRUE

\* updateLabels, the class toggles: the focused index first, the hovered
\* index only when nothing is focused
LabelClassesHoverFirst(focused, hovered) ==
    [i \in Layers |->
        IF hovered >= 0 THEN [hovered |-> i = hovered, dimmed |-> FALSE]
        ELSE IF focused >= 0 THEN [hovered |-> i = focused, dimmed |-> i # focused]
        ELSE [hovered |-> FALSE, dimmed |-> FALSE]]

LabelClasses(focused, hovered) ==
    [i \in Layers |->
        IF focused >= 0 THEN [hovered |-> i = focused, dimmed |-> i # focused]
        ELSE IF hovered >= 0 THEN [hovered |-> i = hovered, dimmed |-> FALSE]
        ELSE [hovered |-> FALSE, dimmed |-> FALSE]]

\* one animation frame of this page: the frame callbacks run back to back
\* with no input event between them, the animation library's ticker renders
\* the tweens and animate writes the classes of the layer labels
LTick ==
    /\ OnLayers
    /\ UNCHANGED <<lCamera, labelsVisible>>
    /\ labelClasses' = LabelClasses(focusedLayerIndex, hoveredLayerIndex)
    /\ \E acc \in {LRenderAll(lTweens, [op |-> edgeOpacity, kept |-> <<>>])} :
          /\ edgeOpacity' = acc.op
          /\ lTweens' = acc.kept
          /\ lLast' = [op |-> "tick", hit |-> -1, was |-> focusedLayerIndex]
          /\ UNCHANGED <<focusedLayerIndex, hoveredLayerIndex, cursor,
                         lPanelVisible, edgeTarget, lCalls>>

\* createDisks: the midpoint of the ring between this disk and the next
\* inner one
LabelRadius(idx) ==
    (LayerRadius(idx) + (IF idx < Len(LayerRadii) - 1 THEN LayerRadius(idx + 1)
                         ELSE 0)) \div 2

\* updateLabels: the anchor of a layer's label, with the ring at the rotation
\* it starts from: cos(-0.25) is 0.97, sin(-0.25) is -0.25
LabelAnchor(idx) ==
    <<(97 * LabelRadius(idx)) \div 100, 0, (-25 * LabelRadius(idx)) \div 100>>

\* init: camera.position.set(0, 7, 9), camera.lookAt(0, 0, 0)
InitialCamera == [position |-> <<0, 70, 90>>, target |-> <<0, 0, 0>>]

\* where drags on the canvas the orbit controls are bound to can leave the
\* camera: between minDistance 5 and maxDistance 18 from controls.target,
\* at a polar angle between 0.2 pi and 0.55 pi; panning moves the target
OrbitPoses == {[position |-> <<110, 70, 0>>, target |-> <<200, 0, 0>>]}

L_orbit(pose) ==
    /\ OnLayers
    /\ UNCHANGED labelsVisible
    /\ lCalls < MaxLCalls
    /\ lCalls' = lCalls + 1
    /\ lCamera' = pose
    /\ lLast' = [op |-> "orbit", hit |-> -1, was |-> focusedLayerIndex]
    /\ UNCHANGED <<layerState, labelClasses>>

\* the 500 ms timer of init: labelElements.forEach(el =>
\* el.classList.add('visible'))
L_showLabels ==
    /\ OnLayers
    /\ UNCHANGED lCamera
    /\ ~labelsVisible
    /\ labelsVisible' = TRUE
    /\ lLast' = [op |-> "showLabels", hit |-> -1, was |-> focusedLayerIndex]
    /\ UNCHANGED <<layerState, labelClasses, lCalls>>

\* the opacity a layer's label is shown with: updateLabels writes the
\* position and the classes and never style.opacity, the stylesheet shows
\* the labels that carry 'visible'
LayerLabelOpacity(idx) == IF labelsVisible THEN 1 ELSE 0

LInit ==
    /\ focusedLayerIndex = -1
    /\ hoveredLayerIndex = -1
    /\ cursor = "default"
    /\ lPanelVisible = FALSE
    /\ edgeOpacity = [i \in Layers |-> EdgeInitial]
    /\ edgeTarget = [i \in Layers |-> EdgeInitial]
    /\ lTweens = <<>>
    /\ labelClasses = [i \in Layers |-> [hovered |-> FALSE, dimmed |-> FALSE]]
    /\ lCalls = 0
    /\ lLast = [op |-> "init", hit |-> -1, was |-> -1]
    /\ lCamera = InitialCamera
    /\ labelsVisible = FALSE

\* ========================================================================
\* FOUR-RUNGS PAGE
\* ========================================================================
\* Time on this page is counted in tenths of a second, lengths in tenths of a
\* world unit, opacity and emissive intensity in hundredths.

\* RUNGS, top first, with CONFIG.positions as y and CONFIG.radii as radius
RUNGS ==
    << [id |-> "outcome",   y |-> 55,  radius |-> 22],
       [id |-> "approach",  y |-> 35,  radius |-> 18],
       [id |-> "method",    y |-> 10,  radius |-> 15],
       [id |-> "execution", y |-> -10, radius |-> 12] >>

RungIds == {RUNGS[k].id : k \in 1..Len(RUNGS)}

CAMERA_PRESETS ==
    [recommended |-> [position |-> <<50, 50, 130>>, target |-> <<0, 20, 0>>],
     current     |-> [position |-> <<40, 30, 110>>, target |-> <<0, 20, 0>>]]

BogusMode == "bogus"

ViewArgs == {"recommended", "current", BogusMode}

\* what indexing CAMERA_PRESETS with a missing key yields
Undefined == [position |-> <<>>, target |-> <<>>]

\* CAMERA_PRESETS[mode] || CAMERA_PRESETS[fallback]
PresetOr(mode, fallback) ==
    IF mode \in DOMAIN CAMERA_PRESETS THEN CAMERA_PRESETS[mode]
    ELSE IF fallback \in DOMAIN CAMERA_PRESETS THEN CAMERA_PRESETS[fallback]
    ELSE Undefined

InitialCameraPosition == <<80, 60, 160>>   \* init: camera.position.set(8, 6, 16)
InitialControlsTarget == <<0, 20, 0>>      \* init: controls.target.set(0, 2.0, 0)
IntroCameraPosition == <<100, 80, 200>>    \* playIntro: camera.position.set(10, 8, 20)

MatBaseline == <<90, 30>>      \* opacity 0.9, emissiveIntensity 0.3
MatFocused == <<100, 50>>      \* focusOnRung, the focused rung
MatDimmed == <<20, 10>>        \* focusOnRung, the other rungs
MatBottom == <<100, 40>>       \* setViewMode('current'), method and execution
MatTop == <<40, 15>>           \* setViewMode('current'), outcome and approach

ClearCameraDuration == 10      \* clearFocus, 1 s
FocusCameraDuration == 12      \* focusOnRung, 1.2 s
ViewCameraDuration == 15       \* setViewMode, 1.5 s
IntroCameraDuration == 30      \* playIntro, 3 s
FocusMaterialDuration == 8     \* focusOnRung and clearFocus, 0.8 s
ViewMaterialDuration == 10     \* setViewMode, 1 s

MaxRCalls == 2        \* calls of the page's functions, the intro aside
RFrameDt == 5         \* time between two frames of the four-rungs page

\* 'power2.inOut' : p < 1/2 -> 4p^3, else 1 - 4(1 - p)^3
Power2InOut(el, dur, delta) ==
    IF 2 * el < dur
    THEN (delta * 4 * Cube(el)) \div Cube(dur)
    ELSE delta - ((delta * 4 * Cube(dur - el)) \div Cube(dur))

Ease(ease, el, dur, delta) ==
    IF ease = "power2.inOut" THEN Power2InOut(el, dur, delta)
    ELSE IF ease = "power2.out" THEN Power2Out(el, dur, delta)
    ELSE Power1Out(el, dur, delta)

\* gsap.to(obj, {...to, duration, ease})
Tween(obj, to, dur, ease) ==
    [obj |-> obj, to |-> to, dur |-> dur, ease |-> ease,
     el |-> 0, init |-> FALSE, from |-> to]

\* the two camera tweens every camera transition starts
CameraTweens(position, target, dur, ease) ==
    << Tween("camera.position", position, dur, ease),
       Tween("controls.target", target, dur, ease) >>

\* rungRings.forEach(({ material, rung }) => gsap.to(material, ...))
MaterialTweens(to, dur) ==
    [k \in 1..Len(RUNGS) |-> Tween(RUNGS[k].id, to[RUNGS[k].id], dur, "power1.out")]

\* focusOnRung: Math.cos(angle) * distance, targetY + 2, Math.sin(angle) * distance
FocusCameraPosition(rung) == <<52, rung.y + 5 + 20, 30>>

FocusControlsTarget(rung) == <<0, rung.y, 0>>

RungOf(id) == RUNGS[CHOOSE k \in 1..Len(RUNGS) : RUNGS[k].id = id]

\* focusOnRung: const isFocused = r.id === rung.id
IsFocused(r, rung) == r = rung.id

FocusMaterials(rung) ==
    [r \in RungIds |-> IF IsFocused(r, rung) THEN MatFocused ELSE MatDimmed]

BaselineMaterials == [r \in RungIds |-> MatBaseline]

\* setViewMode('current'): const isBottom = ...
CurrentMaterials ==
    [r \in RungIds |-> IF r \in {"method", "execution"} THEN MatBottom ELSE MatTop]

focusOnRungBody(rung) ==
    /\ focusedRung' = rung.id
    /\ rTweens' = rTweens
          \o CameraTweens(FocusCameraPosition(rung), FocusControlsTarget(rung),
                          FocusCameraDuration, "power2.inOut")
          \o MaterialTweens(FocusMaterials(rung), FocusMaterialDuration)
    /\ cameraRequest' = [position |-> FocusCameraPosition(rung),
                         target |-> FocusControlsTarget(rung)]
    /\ materialTarget' = FocusMaterials(rung)
    /\ rPanelVisible' = TRUE
    /\ UNCHANGED <<currentView, flowDirection, cameraPosition, controlsTarget,
                   material, introPlayed>>

focusOnRung(id) ==
    /\ OnRungs
    /\ UNCHANGED <<rLabelOpacity, rFrameLog, insightVisible, insightTimers>>
    /\ rCalls < MaxRCalls
    /\ rCalls' = rCalls + 1
    /\ rLast' = [op |-> "focusOnRung", arg |-> id, was |-> focusedRung]
    /\ rLeft' = "null"
    /\ focusOnRungBody(RungOf(id))

\* clearFocus reads preset.position of an undefined preset
ClearFocusThrows(view) == PresetOr(view, "overview") = Undefined

\* the tweens clearFocus starts when it does not throw
ClearFocusTweens(view) ==
    CameraTweens(PresetOr(view, "overview").position,
                 PresetOr(view, "overview").target,
                 ClearCameraDuration, "power2.inOut")
    \o MaterialTweens(BaselineMaterials, FocusMaterialDuration)

clearFocusBody ==
    /\ focusedRung' = "null"
    /\ IF ClearFocusThrows(currentView)
       THEN UNCHANGED <<rTweens, cameraRequest, materialTarget, rPanelVisible>>
       ELSE /\ rTweens' = rTweens \o ClearFocusTweens(currentView)
            /\ cameraRequest' = [position |-> PresetOr(currentView, "overview").position,
                                 target |-> PresetOr(currentView, "overview").target]
            /\ materialTarget' = BaselineMaterials
            /\ rPanelVisible' = FALSE
    /\ UNCHANGED <<currentView, flowDirection, cameraPosition, controlsTarget,
                   material, introPlayed>>

\* window.closeDetailPanel = clearFocus: the close control of the detail panel
clearFocus ==
    /\ OnRungs
    /\ UNCHANGED <<rLabelOpacity, rFrameLog, insightVisible, insightTimers>>
    /\ rCalls < MaxRCalls
    /\ rCalls' = rCalls + 1
    /\ rLast' = [op |-> "clearFocus", arg |-> "", was |-> focusedRung]
    /\ rLeft' = focusedRung
    /\ clearFocusBody

\* what raycaster.intersectObjects(clickableMeshes) can report, as the rungs
\* the intersected meshes belong to: up to MaxHits rungs, nearest first, in
\* any order (the camera orbits)
RECURSIVE RungHitSeqs(_)
RungHitSeqs(n) ==
    IF n = 0 THEN {<<>>}
    ELSE LET shorter == RungHitSeqs(n - 1)
         IN shorter \cup
            {Append(h, r) : h \in {q \in shorter : Len(q) = n - 1}, r \in RungIds}

ClickHits ==
    {h \in RungHitSeqs(MaxHits) : \A i, j \in 1..Len(h) : i # j => h[i] # h[j]}

\* const clickedObject = intersects[0].object, and the rung it belongs to
ClickedRungFirst(intersects) == intersects[1]

\* the rung of smallest radius among the intersected ones, "none" when the
\* ray intersects none: recorded with each click for the properties
SmallestRung(hits) ==
    IF hits = <<>> THEN "none"
    ELSE CHOOSE r \in {hits[k] : k \in 1..Len(hits)} :
            \A k \in 1..Len(hits) : RungOf(r).radius <= RungOf(hits[k]).radius

R_onCanvasClick(intersects) ==
    /\ OnRungs
    /\ UNCHANGED <<rLabelOpacity, rFrameLog, insightVisible, insightTimers>>
    /\ rCalls < MaxRCalls
    /\ rCalls' = rCalls + 1
    /\ rLast' = [op |-> "click",
                 arg |-> IF Len(intersects) > 0 THEN ClickedRungFirst(intersects)
                         ELSE "none",
                 was |-> focusedRung,
                 smallest |-> SmallestRung(intersects)]
    /\ rLeft' = "null"
    /\ IF Len(intersects) > 0
       THEN focusOnRungBody(RungOf(ClickedRungFirst(intersects)))
       ELSE UNCHANGED <<rungState, introPlayed, cameraRequest, materialTarget>>

\* event.key values: the five keys of the switch and one other key
Keys == {"Escape", "1", "2", "3", "4", "x"}

\* '1' .. '4' focus RUNGS[3] .. RUNGS[0]
KeyRung(key) ==
    IF key = "1" THEN RUNGS[4]
    ELSE IF key = "2" THEN RUNGS[3]
    ELSE IF key = "3" THEN RUNGS[2]
    ELSE RUNGS[1]

onKeyDown(key) ==
    /\ OnRungs
    /\ UNCHANGED <<rLabelOpacity, rFrameLog, insightVisible, insightTimers>>
    /\ rCalls < MaxRCalls
    /\ rCalls' = rCalls + 1
    /\ rLast' = [op |-> "keydown", arg |-> key, was |-> focusedRung]
    /\ rLeft' = IF key = "Escape" THEN focusedRung ELSE "null"
    /\ IF key = "Escape" THEN clearFocusBody
       ELSE IF key \in {"1", "2", "3", "4"} THEN focusOnRungBody(KeyRung(key))
       ELSE UNCHANGED <<rungState, introPlayed, cameraRequest, materialTarget>>

\* the camera tweens and the mode's material tweens of setViewMode
ViewTweens(mode) ==
    CameraTweens(PresetOr(mode, "recommended").position,
                 PresetOr(mode, "recommended").target,
                 ViewCameraDuration, "power2.inOut")
    \o (IF mode = "recommended"
        THEN MaterialTweens(BaselineMaterials, ViewMaterialDuration)
        ELSE IF mode = "current"
        THEN MaterialTweens(CurrentMaterials, ViewMaterialDuration)
        ELSE <<>>)

setViewMode(mode) ==
    /\ OnRungs
    /\ UNCHANGED <<rLabelOpacity, rFrameLog>>
    /\ rCalls < MaxRCalls
    /\ rCalls' = rCalls + 1
    /\ rLast' = [op |-> "setViewMode", arg |-> mode, was |-> focusedRung]
    /\ rLeft' = "null"
    /\ currentView' = mode
    /\ focusedRung' = "null"
    /\ IF ClearFocusThrows(mode)
       THEN UNCHANGED <<rTweens, cameraRequest, materialTarget, rPanelVisible,
                        flowDirection, insightVisible, insightTimers>>
       ELSE /\ rTweens' = rTweens \o ClearFocusTweens(mode) \o ViewTweens(mode)
            /\ insightVisible' = IF mode = "recommended" THEN FALSE
                                 ELSE insightVisible
            /\ insightTimers' = IF mode = "current" THEN insightTimers + 1
                                ELSE insightTimers
            /\ cameraRequest' = [position |-> PresetOr(mode, "recommended").position,
                                 target |-> PresetOr(mode, "recommended").target]
            /\ materialTarget' = IF mode = "current" THEN CurrentMaterials
                                 ELSE BaselineMaterials
            /\ rPanelVisible' = FALSE
            /\ flowDirection' = IF mode = "recommended" THEN 1
                                ELSE IF mode = "current" THEN -1
                                ELSE flowDirection
    /\ UNCHANGED <<cameraPosition, controlsTarget, material, introPlayed>>

\* the timer setViewMode('current') arms: setTimeout(() =>
\* insightOverlay.classList.add('visible'), 800)
R_insightTimer ==
    /\ OnRungs
    /\ UNCHANGED <<rLabelOpacity, rFrameLog>>
    /\ insightTimers > 0
    /\ insightTimers' = insightTimers - 1
    /\ insightVisible' = TRUE
    /\ rLast' = [op |-> "insightTimer", arg |-> "", was |-> focusedRung]
    /\ UNCHANGED <<rungState, introPlayed, materialTarget, cameraRequest,
                   rCalls, rLeft>>

\* RUNGS.findIndex(r => r.id === id), from 0
RungIndex(id) == (CHOOSE k \in 1..Len(RUNGS) : RUNGS[k].id = id) - 1

navigateRung(direction) ==
    /\ OnRungs
    /\ UNCHANGED <<rLabelOpacity, rFrameLog, insightVisible, insightTimers>>
    /\ rCalls < MaxRCalls
    /\ rCalls' = rCalls + 1
    /\ rLast' = [op |-> "navigateRung", arg |-> "", was |-> focusedRung]
    /\ rLeft' = "null"
    /\ IF focusedRung = "null" THEN UNCHANGED <<rungState, introPlayed,
                                                 cameraRequest, materialTarget>>
       ELSE IF /\ RungIndex(focusedRung) + direction >= 0
               /\ RungIndex(focusedRung) + direction < Len(RUNGS)
       THEN focusOnRungBody(RUNGS[RungIndex(focusedRung) + direction + 1])
       ELSE UNCHANGED <<rungState, introPlayed, cameraRequest, materialTarget>>

\* the timer init arms: setTimeout(playIntro, 100)
playIntro ==
    /\ OnRungs
    /\ UNCHANGED <<rLabelOpacity, rFrameLog, insightVisible, insightTimers>>
    /\ ~introPlayed
    /\ introPlayed' = TRUE
    /\ cameraPosition' = IntroCameraPosition
    /\ currentView' = "recommended"
    /\ rTweens' = rTweens
          \o CameraTweens(CAMERA_PRESETS.recommended.position,
                          CAMERA_PRESETS.recommended.target,
                          IntroCameraDuration, "power2.out")
    /\ cameraRequest' = [position |-> CAMERA_PRESETS.recommended.position,
                         target |-> CAMERA_PRESETS.recommended.target]
    /\ rLast' = [op |-> "playIntro", arg |-> "", was |-> focusedRung]
    /\ rLeft' = "null"
    /\ UNCHANGED <<focusedRung, flowDirection, controlsTarget, material,
                   rPanelVisible, materialTarget, rCalls>>

\* the animated objects of the page and their current values
RObjects == {"camera.position", "controls.target"} \cup RungIds

RValues ==
    [o \in RObjects |->
        IF o = "camera.position" THEN cameraPosition
        ELSE IF o = "controls.target" THEN controlsTarget
        ELSE material[o]]

\* one render of a tween on the values val; kept collects the tweens that
\* stay alive
RRenderStep(tw, acc, el, from) ==
    [val  |-> [acc.val EXCEPT ![tw.obj] =
                  IF el >= tw.dur THEN tw.to
                  ELSE [k \in 1..Len(tw.to) |->
                           from[k] + Ease(tw.ease, el, tw.dur, tw.to[k] - from[k])]],
     kept |-> IF el >= tw.dur THEN acc.kept
              ELSE Append(acc.kept, [tw EXCEPT !.el = el, !.init = TRUE,
                                               !.from = from])]

RRenderTween(tw, acc) ==
    CHOOSE r \in {RRenderStep(t, a, el, from) :
                     t \in {tw}, a \in {acc},
                     el \in {Min(tw.el + RFrameDt, tw.dur)},
                     from \in {IF tw.init THEN tw.from ELSE acc.val[tw.obj]}} : TRUE

RECURSIVE RRenderAll(_, _)
RRenderAll(tws, acc) ==
    IF tws = <<>> THEN acc
    ELSE CHOOSE r \in {RRenderAll(rest, a1) :
                         rest \in {Tail(tws)},
                         a1 \in {RRenderTween(Head(tws), acc)}} : TRUE

\* CONFIG.positions.boundary
BoundaryY == 20

RLabels == RungIds \cup {"boundary"}

\* updateLabels: new THREE.Vector3(rung.radius + 0.8, rung.y, 0) for a rung,
\* new THREE.Vector3(-4.5, CONFIG.positions.boundary, 0) for the boundary
RLabelAnchor(l) ==
    IF l = "boundary" THEN <<-45, BoundaryY, 0>>
    ELSE <<RungOf(l).radius + 8, RungOf(l).y, 0>>

\* updateLabels, the fade: label.style.opacity = distance < 1 ? 1 : 0
\* with the camera at c looking at t
Fade(d) == IF NdcDepthBelowOne(d) THEN 1 ELSE 0

R_updateLabels(c, t) ==
    [l \in RLabels |-> Fade(ViewDepth(RLabelAnchor(l), c, t))]

\* animate: controls.update(), the procedural animation, updateLabels(),
\* renderer.render(scene, camera)
R_animateSteps == <<"controls.update", "animate", "updateLabels", "render">>

\* a drag on the canvas the orbit controls are bound to: the camera turns
\* about controls.target, between minDistance 5 and maxDistance 25 and up to
\* the polar angle 0.85 pi; panning is disabled
OrbitOffsets == {<<30, -40, 0>>}

R_orbit(offset) ==
    /\ OnRungs
    /\ UNCHANGED <<rLabelOpacity, rFrameLog, insightVisible, insightTimers>>
    /\ introPlayed
    /\ rCalls < MaxRCalls
    /\ rCalls' = rCalls + 1
    /\ rLast' = [op |-> "orbit", arg |-> "", was |-> focusedRung]
    /\ rLeft' = "null"
    /\ cameraPosition' = <<controlsTarget[1] + offset[1],
                           controlsTarget[2] + offset[2],
                           controlsTarget[3] + offset[3]>>
    /\ UNCHANGED <<focusedRung, currentView, flowDirection, controlsTarget,
                   material, rPanelVisible, introPlayed, rTweens,
                   materialTarget, cameraRequest>>

\* one animation frame of this page: the frame callbacks run back to back
\* with no input event between them, the animation library's ticker renders
\* the tweens and animate projects the labels; the first frame with tweens
\* comes after the 100 ms timer of init
RTick ==
    /\ OnRungs
    /\ UNCHANGED <<insightVisible, insightTimers>>
    /\ introPlayed
    /\ \E acc \in {RRenderAll(rTweens, [val |-> RValues, kept |-> <<>>])} :
          /\ cameraPosition' = acc.val["camera.position"]
          /\ controlsTarget' = acc.val["controls.target"]
          /\ material' = [r \in RungIds |-> acc.val[r]]
          /\ rTweens' = acc.kept
          /\ rLabelOpacity' = R_updateLabels(acc.val["camera.position"],
                                             acc.val["controls.target"])
    /\ rFrameLog' = R_animateSteps
    /\ rLast' = [op |-> "tick", arg |-> "", was |-> focusedRung]
    /\ UNCHANGED <<focusedRung, currentView, flowDirection, rPanelVisible,
                   introPlayed, materialTarget, cameraRequest, rCalls, rLeft>>

RInit ==
    /\ focusedRung = "null"
    /\ currentView = "recommended"
    /\ flowDirection = 1
    /\ cameraPosition = InitialCameraPosition
    /\ controlsTarget = InitialControlsTarget
    /\ material = BaselineMaterials
    /\ rPanelVisible = FALSE
    /\ introPlayed = FALSE
    /\ rTweens = <<>>
    /\ materialTarget = BaselineMaterials
    /\ cameraRequest = [position |-> InitialCameraPosition,
                        target |-> InitialControlsTarget]
    /\ rCalls = 0
    /\ rLast = [op |-> "init", arg |-> "", was |-> "null"]
    /\ rLeft = "null"
    /\ rLabelOpacity = R_updateLabels(InitialCameraPosition,
                                      InitialControlsTarget)
    /\ rFrameLog = R_animateSteps
    /\ insightVisible = FALSE
    /\ insightTimers = 0

\* ========================================================================
\* COMPLEMENTARITY PAGE
\* ========================================================================

\* CONFIG.unobservables[].id
Unobservables ==
    {"intuition", "presence", "room", "trust", "memory", "context", "timing",
     "silence"}

ScaleIdle == 1000        \* targetScale when not hovered
ScaleHovered == 1400     \* targetScale when hovered
EmissiveIdle == 50       \* emissiveIntensity when not hovered
EmissiveHovered == 90    \* emissiveIntensity when hovered
OpacityIdle == 80        \* opacity when not hovered
OpacityHovered == 100    \* opacity when hovered
SmoothingDivisor == 10   \* newScale = currentScale + (targetScale - currentScale) * 0.1

MaxCFrames == 6          \* frames of the complementarity page
MaxCMoves == 2           \* pointer moves on the complementarity page

\* the part of the page's state one frame works on
CFrameState ==
    [hovered |-> hoveredUnobservable, cursor |-> bodyCursor,
     scale |-> orbScale, emissive |-> orbEmissive, opacity |-> orbOpacity,
     labelHovered |-> labelHovered, tooltip |-> tooltipVisible,
     log |-> <<>>]

\* animate: unobservableObjects.forEach, with isHovered read from the
\* hoveredUnobservable the previous frame left
AnimateUnobservables(st) ==
    [st EXCEPT
       !.scale = [u \in Unobservables |->
                     st.scale[u]
                     + ((IF st.hovered = u THEN ScaleHovered ELSE ScaleIdle)
                        - st.scale[u]) \div SmoothingDivisor],
       !.emissive = [u \in Unobservables |->
                        IF st.hovered = u THEN EmissiveHovered ELSE EmissiveIdle],
       !.opacity = [u \in Unobservables |->
                       IF st.hovered = u THEN OpacityHovered ELSE OpacityIdle],
       !.log = Append(st.log, "animate")]

checkHover(st, over) ==
    [st EXCEPT
       !.hovered = IF over # "none" THEN over ELSE "null",
       !.cursor = IF over # "none" THEN "pointer" ELSE "default",
       !.log = Append(st.log, "checkHover")]

\* the complementarity page's updateLabels: the 'hovered' class of the
\* unobservable labels
C_updateLabels(st) ==
    [st EXCEPT
       !.labelHovered = [u \in Unobservables |-> st.hovered = u],
       !.log = Append(st.log, "updateLabels")]

updateTooltip(st) ==
    [st EXCEPT
       !.tooltip = st.hovered # "null",
       !.log = Append(st.log, "updateTooltip")]

Render(st) == [st EXCEPT !.log = Append(st.log, "render")]

\* the body of animate, in the order of its statements
CFrame(st, over) ==
    Render(updateTooltip(C_updateLabels(checkHover(AnimateUnobservables(st), over))))

\* document 'mousemove' (and 'touchmove'): only the mouse coordinates change
C_mousemove(over) ==
    /\ OnComplementarity
    /\ cMoves < MaxCMoves
    /\ cMoves' = cMoves + 1
    /\ mouseOver' = over
    /\ cLast' = "mousemove"
    /\ UNCHANGED <<hoveredUnobservable, bodyCursor, orbScale, orbEmissive,
                   orbOpacity, labelHovered, tooltipVisible, cLog, cFrames>>

\* one call of animate
C_animate ==
    /\ OnComplementarity
    /\ cFrames < MaxCFrames
    /\ cFrames' = cFrames + 1
    /\ \E st \in {CFrame(CFrameState, mouseOver)} :
          /\ hoveredUnobservable' = st.hovered
          /\ bodyCursor' = st.cursor
          /\ orbScale' = st.scale
          /\ orbEmissive' = st.emissive
          /\ orbOpacity' = st.opacity
          /\ labelHovered' = st.labelHovered
          /\ tooltipVisible' = st.tooltip
          /\ cLog' = st.log
    /\ cLast' = "frame"
    /\ UNCHANGED <<mouseOver, cMoves>>

CInit ==
    /\ mouseOver = "none"
    /\ hoveredUnobservable = "null"
    /\ bodyCursor = "default"
    /\ orbScale = [u \in Unobservables |-> ScaleIdle]
    /\ orbEmissive = [u \in Unobservables |-> EmissiveIdle]
    /\ orbOpacity = [u \in Unobservables |-> OpacityIdle]
    /\ labelHovered = [u \in Unobservables |-> FALSE]
    /\ tooltipVisible = FALSE
    /\ cLog = <<>>
    /\ cFrames = 0
    /\ cMoves = 0
    /\ cLast = "init"

CNext ==
    \/ \E o \in Unobservables \cup {"none"} : C_mousemove(o)
    \/ C_animate

\* ========================================================================
\* PROCEDURAL ANIMATION
\* ========================================================================
\* The part of each page's animate that moves objects by itself: the orbs of
\* the complementarity page, the disks of the pace-layer page, the beam
\* particles of the four-rungs page.

MaxPFrames == 3         \* frames of procedural animation followed per page

\* time += 0.016
FrameMs == 16

Orbs == 0..1

\* group.rotation.y = time * 0.3 + i
OrbRotationY(time, i) == 3 * time + 10000 * i

\* group.position.y = baseY + Math.sin(time * 0.7 + i * 0.5) * 0.15
OrbBobPhase(time, i) == 7 * time + 5000 * i

\* animate of the complementarity page, the transforms of the orbs
P_animateOrbs ==
    /\ OnProcedural
    /\ orbTime < MaxPFrames * FrameMs
    /\ orbTime' = orbTime + FrameMs
    /\ orbRotationY' = [i \in Orbs |-> OrbRotationY(orbTime + FrameMs, i)]
    /\ orbBobPhase' = [i \in Orbs |-> OrbBobPhase(orbTime + FrameMs, i)]
    /\ UNCHANGED <<diskFrames, diskRotationZ, particleFrames, particleY>>

\* CONFIG.layers[i].rotationSpeed, in thousandths
RotationSpeed == <<800, 500, 250, 120, 50, 15>>

\* group.rotation.z -= layer.rotationSpeed * 0.008
RotateDisk(rotation, idx) == rotation - RotationSpeed[idx + 1] * 8

\* animate of the pace-layer page, the rotation of the disks
P_animateDisks ==
    /\ OnProcedural
    /\ diskFrames < MaxPFrames
    /\ diskFrames' = diskFrames + 1
    /\ diskRotationZ' = [i \in Layers |-> RotateDisk(diskRotationZ[i], i)]
    /\ UNCHANGED <<orbTime, orbRotationY, orbBobPhase, particleFrames,
                   particleY>>

\* CONFIG.positions.outcome + 1.0 and CONFIG.positions.execution - 0.5
TopY == 6500
BottomY == -1500

\* particle.userData.speed * 0.016 for the speed 0.5
ParticleStep == 8

\* the values (Math.random() - 0.5) * 0.4 is drawn from
ResetJitter == {-200, 0, 199}

\* the position.y the beam particle followed here was created with: near
\* the lower end of the beam
ParticleStartY == BottomY + 4

\* animate of the four-rungs page, position.y of a beam particle: the move
\* and the reset at the end of the beam
P_animateParticle(flow, jitter) ==
    /\ OnProcedural
    /\ particleFrames < MaxPFrames
    /\ particleFrames' = particleFrames + 1
    /\ particleY' =
          IF flow > 0 /\ particleY - ParticleStep * flow < BottomY
          THEN TopY + jitter
          ELSE IF flow < 0 /\ particleY - ParticleStep * flow > TopY
          THEN BottomY + jitter
          ELSE particleY - ParticleStep * flow
    /\ UNCHANGED <<orbTime, orbRotationY, orbBobPhase, diskFrames,
                   diskRotationZ>>

PInit ==
    /\ orbTime = 0
    /\ orbRotationY = [i \in Orbs |-> 0]
    /\ orbBobPhase = [i \in Orbs |-> 0]
    /\ diskFrames = 0
    /\ diskRotationZ = [i \in Layers |-> 0]
    /\ particleFrames = 0
    /\ particleY = ParticleStartY

PNext ==
    \/ P_animateOrbs
    \/ P_animateDisks
    \/ \E flow \in {1, -1}, jitter \in ResetJitter : P_animateParticle(flow, jitter)

\* ========================================================================
\* THE ANIMATE HELPER
\* ========================================================================
\* animate({from, to, duration, onUpdate, onComplete}) of the shared
\* utilities, with a duration of three frames.

AnimateDuration == 3 * FrameMs

\* the function animate returns: () => cancelAnimationFrame(animationId)
CancelFrame(requested, id) == requested \ {id}

\* the function animate returns, invoked between two frames
A_cancel ==
    /\ OnHelper
    /\ ~aCancelled
    /\ aCancelled' = TRUE
    /\ aRequested' = CancelFrame(aRequested, animationId)
    /\ UNCHANGED <<animationId, aElapsed, aUpdates, aCompleted,
                   aCalledAfterCancel>>

\* the browser runs the requested frame: tick(currentTime); cancelInUpdate
\* tells whether the caller's onUpdate invokes the returned function. The
\* browser takes a frame off its list before it runs it.
A_tick(cancelInUpdate) ==
    /\ OnHelper
    /\ animationId \in aRequested
    /\ aElapsed' = aElapsed + FrameMs
    /\ aUpdates' = aUpdates + 1
    /\ aCancelled' = (aCancelled \/ cancelInUpdate)
    /\ IF aElapsed + FrameMs < AnimateDuration
       THEN /\ animationId' = animationId + 1
            /\ aRequested' =
                  (IF cancelInUpdate
                   THEN CancelFrame(aRequested \ {animationId}, animationId)
                   ELSE aRequested \ {animationId}) \cup {animationId + 1}
            /\ aCompleted' = aCompleted
            /\ aCalledAfterCancel' = (aCalledAfterCancel \/ aCancelled)
       ELSE /\ animationId' = animationId
            /\ aRequested' = aRequested \ {animationId}
            /\ aCompleted' = TRUE
            /\ aCalledAfterCancel' =
                  (aCalledAfterCancel \/ aCancelled \/ cancelInUpdate)

\* after the call of animate: the first frame is requested
AInit ==
    /\ animationId = 1
    /\ aRequested = {1}
    /\ aElapsed = 0
    /\ aUpdates = 0
    /\ aCompleted = FALSE
    /\ aCancelled = FALSE
    /\ aCalledAfterCancel = FALSE

ANext ==
    \/ A_cancel
    \/ \E cancelInUpdate \in BOOLEAN : A_tick(cancelInUpdate)

\* ========================================================================
\* THE TOOLTIP MANAGER
\* ========================================================================
\* createTooltipManager of the shared components. A handler pair is the
\* mouseenter and the mouseleave closure one call of attach creates; both
\* are registered and removed together.

MaxAttach == 3          \* calls of attach

Elements == {"e1", "e2"}

\* attach(element, data)
attach(element) ==
    /\ OnTooltip
    /\ handlersCreated < MaxAttach
    /\ handlersCreated' = handlersCreated + 1
    /\ listeners' = [listeners EXCEPT
                        ![element] = @ \cup {handlersCreated + 1}]
    /\ attachedElements' = [attachedElements EXCEPT
                               ![element] = handlersCreated + 1]
    /\ tLast' = [op |-> "attach", element |-> element]
    /\ UNCHANGED tooltipShown

\* detach(element)
detach(element) ==
    /\ OnTooltip
    /\ IF attachedElements[element] # 0
       THEN /\ listeners' = [listeners EXCEPT
                                ![element] = @ \ {attachedElements[element]}]
            /\ attachedElements' = [attachedElements EXCEPT ![element] = 0]
       ELSE UNCHANGED <<listeners, attachedElements>>
    /\ tLast' = [op |-> "detach", element |-> element]
    /\ UNCHANGED <<handlersCreated, tooltipShown>>

\* the pointer enters an element: every mouseenter handler registered on it
\* calls tooltip.show
T_mouseenter(element) ==
    /\ OnTooltip
    /\ tooltipShown' = (tooltipShown \/ listeners[element] # {})
    /\ tLast' = [op |-> "mouseenter", element |-> element]
    /\ UNCHANGED <<listeners, attachedElements, handlersCreated>>

\* the pointer leaves an element: every mouseleave handler registered on it
\* calls tooltip.hide
T_mouseleave(element) ==
    /\ OnTooltip
    /\ tooltipShown' = (tooltipShown /\ listeners[element] = {})
    /\ tLast' = [op |-> "mouseleave", element |-> element]
    /\ UNCHANGED <<listeners, attachedElements, handlersCreated>>

TInit ==
    /\ listeners = [e \in Elements |-> {}]
    /\ attachedElements = [e \in Elements |-> 0]
    /\ handlersCreated = 0
    /\ tooltipShown = FALSE
    /\ tLast = [op |-> "init", element |-> ""]

TNext ==
    \/ \E e \in Elements : attach(e)
    \/ \E e \in Elements : detach(e)
    \/ \E e \in Elements : T_mouseenter(e)
    \/ \E e \in Elements : T_mouseleave(e)

\* ========================================================================
\* THE GATE AND ITS PARTICLES
\* ========================================================================
\* createGatedZone's particles and animateGated's loop over them. Progress
\* and speed are counted in 1/100000, the gate in hundredths.

GateParticles == 1      \* particles followed (the zone creates twelve)
MaxGFrames == 3         \* calls of animateGated

GParticles == 1..GateParticles

\* progress: Math.random(), the values followed here lie about the band of
\* the gate and the end of the lane
ProgressStarts == {39990, 40000, 50000, 59990, 60000, 99990}

\* speed: 0.002 + Math.random() * 0.002
Speeds == {200, 400}

\* the values the slider hands to updateGate, snapped or not
GateAmounts == {0, 32, 33, 50, 100}

\* const atGate = p.userData.progress > 0.4 && p.userData.progress < 0.6
AtGateNever(progress) == FALSE

AtGate(progress) == progress > 40000 /\ progress < 60000

\* speedMult, in tenths: 0 closed, 0.5 review, 2 open
SpeedMult(gate) == IF gate < 33 THEN 0 ELSE IF gate < 66 THEN 5 ELSE 20

Max(a, b) == IF a > b THEN a ELSE b

\* the loop body of animateGated for one particle: its progress afterwards
StepParticle(progress, speed, gate) ==
    IF AtGate(progress) /\ SpeedMult(gate) = 0 THEN progress
    ELSE IF progress + (speed * Max(SpeedMult(gate), 1)) \div 10 > 100000
    THEN 0
    ELSE progress + (speed * Max(SpeedMult(gate), 1)) \div 10

\* createGatedZone, the particles
G_createGatedZone(progress, speed) ==
    /\ OnGate
    /\ ~gCreated
    /\ gCreated' = TRUE
    /\ gProgress' = progress
    /\ gSpeed' = speed
    /\ gLast' = "create"
    /\ UNCHANGED <<gGate, gFrames>>

\* updateGate(value, false): gateOpenAmount = value / 100
G_updateGate(value) ==
    /\ OnGate
    /\ gCreated
    /\ gGate # value
    /\ gGate' = value
    /\ gLast' = "gate"
    /\ UNCHANGED <<gCreated, gProgress, gSpeed, gFrames>>

\* one call of animateGated
G_animateGated ==
    /\ OnGate
    /\ gCreated
    /\ gFrames < MaxGFrames
    /\ gFrames' = gFrames + 1
    /\ gProgress' = [p \in GParticles |->
                        StepParticle(gProgress[p], gSpeed[p], gGate)]
    /\ gLast' = "frame"
    /\ UNCHANGED <<gCreated, gSpeed, gGate>>

GInit ==
    /\ gCreated = FALSE
    /\ gProgress = [p \in GParticles |-> 0]
    /\ gSpeed = [p \in GParticles |-> 0]
    /\ gGate = 0
    /\ gFrames = 0
    /\ gLast = "init"

GNext ==
    \/ \E progress \in [GParticles -> ProgressStarts],
          speed \in [GParticles -> Speeds] :
             G_createGatedZone(progress, speed)
    \/ \E value \in GateAmounts : G_updateGate(value)
    \/ G_animateGated

\* ========================================================================
\* THE PAGES
\* ========================================================================
vars == <<page, zvars, lvars, rvars, cvars, pvars, avars, tvars, gvars>>

ZNext ==
    \/ \E z \in ZoneArgs : switchZone(z)
    \/ \E b \in BOOLEAN : onCanvasClick(b)
    \/ closeDetail
    \/ \E v \in GateInputs, s \in BOOLEAN : updateGate(v, s)
    \/ ZTick

\* the switch on its own: the host page's calls and the ticker, whose frames
\* keep coming (requestAnimationFrame re-arms itself before it dispatches)
ZSwitchNext ==
    \/ \E z \in ZoneArgs : switchZone(z)
    \/ ZTick

LNext ==
    \/ \E h \in Intersections : L_onCanvasClick(h)
    \/ \E h \in Intersections : onCanvasHover(h)
    \/ closePanel
    \/ \E pose \in OrbitPoses : L_orbit(pose)
    \/ L_showLabels
    \/ LTick

RNext ==
    \/ \E m \in ViewArgs : setViewMode(m)
    \/ \E r \in RungIds : focusOnRung(r)
    \/ clearFocus
    \/ \E h \in ClickHits : R_onCanvasClick(h)
    \/ \E k \in Keys : onKeyDown(k)
    \/ \E d \in {-1, 1} : navigateRung(d)
    \/ playIntro
    \/ \E offset \in OrbitOffsets : R_orbit(offset)
    \/ R_insightTimer
    \/ RTick

Pages == {"zones", "layers", "rungs", "complementarity", "procedural",
        "helper", "tooltip", "gate"}

Init ==
    /\ page \in Pages
    /\ ZInit
    /\ LInit
    /\ RInit
    /\ CInit
    /\ PInit
    /\ AInit
    /\ TInit
    /\ GInit

InitZones == Init /\ page = "zones"

InitLayers == Init /\ page = "layers"

InitRungs == Init /\ page = "rungs"

InitComplementarity == Init /\ page = "complementarity"

\* the two pages with a focus: pace layers and four rungs
InitFocus == Init /\ page \in {"layers", "rungs"}

SpecZones == InitZones /\ [][ZNext]_vars

FairSpecZones == InitZones /\ [][ZSwitchNext]_vars /\ WF_vars(ZTick)

SpecLayers == InitLayers /\ [][LNext]_vars

SpecRungs == InitRungs /\ [][RNext]_vars

InitGate == Init /\ page = "gate"

SpecGate == InitGate /\ [][GNext]_vars

SpecComplementarity == InitComplementarity /\ [][CNext]_vars

\* the handlers of the two pages that read or write the focus, and the frames
FocusNext ==
    \/ \E h \in Intersections : L_onCanvasClick(h)
    \/ \E h \in Intersections : onCanvasHover(h)
    \/ closePanel
    \/ LTick
    \/ \E m \in ViewArgs : setViewMode(m)
    \/ \E r \in RungIds : focusOnRung(r)
    \/ clearFocus
    \/ \E h \in ClickHits : R_onCanvasClick(h)
    \/ \E k \in Keys : onKeyDown(k)
    \/ \E d \in {-1, 1} : navigateRung(d)
    \/ playIntro
    \/ RTick

SpecFocus == InitFocus /\ [][FocusNext]_vars

Next ==
    \/ ZNext
    \/ LNext
    \/ RNext
    \/ CNext
    \/ PNext
    \/ ANext
    \/ TNext
    \/ GNext

Spec == Init /\ [][Next]_vars

\* ========================================================================
\* PROPERTIES OF THE FRICTION-ZONES PAGE
\* ========================================================================

\* the steps of one complete zone switch, in the order the code performs them
SwitchSteps == <<"slideOut", "outDone", "removed", "built", "placed",
                 "slideIn", "inDone", "cleared">>

IsPrefix(s, t) == Len(s) <= Len(t) /\ SubSeq(t, 1, Len(s)) = s

\* number of zone groups in scene.children
GroupCount == Cardinality({j \in 1..Len(sceneChildren) :
                              sceneChildren[j].kind = "group"})

\* C1: from an idle zone other than 'gated', two switchZone('gated') calls
\* before the slides have finished give exactly one slide-out / rebuild /
\* slide-in sequence; when it is over currentZone is 'gated', the gated group
\* is the only zone group attached and nothing of the prior zone is attached.
C1_DoubleSwitchToGated ==
    (/\ ~isTransitioning
     /\ Len(zBurst) >= 2
     /\ zBurst[1] = "gated"
     /\ zBurst[2] = "gated"
     /\ zFrom.zone # "gated")
    => /\ currentZone = "gated"
       /\ zLog = SwitchSteps
       /\ GroupCount = 1
       /\ AttachedGroups = {zoneGroup}
       /\ groupInfo[zoneGroup].content = "gated"
       /\ zFrom.group \notin AttachedGroups
       /\ particles = ZoneParticles(zoneGroup)
       /\ zTweens = <<>>

C1_Witness ==
    /\ ~isTransitioning
    /\ zBurst = <<"gated", "gated">>
    /\ zFrom.zone = "seamless"
    /\ currentZone = "gated"
    /\ zFrom.group \notin AttachedGroups

\* C2: switchZone(zoneId) changes nothing when zoneId is the current zone or a
\* switch is in progress: zone, guard, gate, scene objects, controls, detail
\* panel and running slides all keep their values.
C2_SwitchIsNoOp ==
    [][(zLast'.op = "switchZone" /\ (zLast'.arg = currentZone \/ isTransitioning))
        => UNCHANGED zoneState]_vars

C2_Witness ==
    /\ zLast.op = "switchZone"
    /\ isTransitioning
    /\ zLast.arg \in ZONES \ {currentZone}
    /\ Len(zBurst) >= 2
    /\ zTweens # <<>>

\* C3: once switchZone(B) was accepted with zone A's group g attached, the
\* page eventually is idle again with g (and its particles) detached and
\* zone B's group attached at x = 0.
C3_SwitchCompletes ==
    \A b \in ZONES :
        (/\ isTransitioning
         /\ currentZone = b
         /\ zoneGroup = zFrom.group
         /\ zoneGroup \in AttachedGroups)
        ~> (/\ ~isTransitioning
            /\ zFrom.group \notin AttachedGroups
            /\ particles \cap ZoneParticles(zFrom.group) = {}
            /\ AttachedGroups = {zoneGroup}
            /\ groupInfo[zoneGroup].content = b
            /\ groupInfo[zoneGroup].x = 0)

C3_Witness ==
    /\ ~isTransitioning
    /\ Len(zBurst) = 1
    /\ zLog = SwitchSteps
    /\ zFrom.group \notin AttachedGroups
    /\ particles \cap ZoneParticles(zFrom.group) = {}
    /\ groupInfo[zoneGroup].content = currentZone
    /\ groupInfo[zoneGroup].x = 0

\* C4: whenever no switch is in progress exactly one zone group is attached
\* to the scene and the particles list holds that group's particles only.
C4_OneZoneWhenIdle ==
    ~isTransitioning
    => /\ GroupCount = 1
       /\ AttachedGroups = {zoneGroup}
       /\ groupInfo[zoneGroup].content = currentZone
       /\ particles \subseteq ZoneParticles(zoneGroup)

C4_Witness ==
    /\ ~isTransitioning
    /\ zoneGroup = 3
    /\ currentZone = "human-only"
    /\ particles = ZoneParticles(3)

\* C8: a switch runs in this order: the outgoing group finishes its slide
\* out; it is then removed; the incoming group is built and placed at the
\* offset opposite to the side the outgoing group left to; it slides to
\* x = 0; isTransitioning is cleared only in the step that ends that slide.
C8_SwitchOrder ==
    [][LET d == Direction(zFrom.zone, currentZone)
       IN /\ IsPrefix(zLog', SwitchSteps)
          /\ \A g \in AttachedGroups :
                g \notin AttachedGroups'
                => /\ groupInfo[g].x # SlideOutX(d)
                   /\ groupInfo'[g].x = SlideOutX(d)
                   /\ \A i \in 1..Len(zTweens') : zTweens'[i].obj # g
                   /\ isTransitioning'
                   /\ currentZone \in ZONES
                      => /\ zoneGroup' \in AttachedGroups' \ AttachedGroups
                         /\ groupInfo'[zoneGroup'].content = currentZone
                         /\ groupInfo'[zoneGroup'].x = OffscreenX(d)
                         /\ groupInfo'[zoneGroup'].x = 0 - groupInfo'[g].x
                         /\ \E i \in 1..Len(zTweens') :
                               /\ zTweens'[i].obj = zoneGroup'
                               /\ zTweens'[i].to = 0
                               /\ zTweens'[i].el = 0
          /\ zoneGroup' # zoneGroup
             => /\ zoneGroup \in AttachedGroups
                /\ zoneGroup \notin AttachedGroups'
          /\ (isTransitioning /\ ~isTransitioning')
             => /\ zoneGroup' = zoneGroup
                /\ groupInfo[zoneGroup].x # 0
                /\ groupInfo'[zoneGroup].x = 0
                /\ zTweens' = <<>>
                /\ zLog' = SwitchSteps]_vars

C8_Witness ==
    /\ isTransitioning
    /\ zLog = SubSeq(SwitchSteps, 1, 6)
    /\ currentZone = "gated"
    /\ zFrom.zone = "human-only"
    /\ groupInfo[zoneGroup].x = 0 - slideDistance
    /\ groupInfo[zFrom.group].x = slideDistance

\* C9 (as claimed): a switchZone(C) call made while the switch to B is in
\* progress supersedes it, the scene ends up showing zone C.
C9_LastRequestWins ==
    (/\ ~isTransitioning
     /\ Len(zBurst) = 2
     /\ zBurst[2] \in ZONES)
    => /\ currentZone = zBurst[2]
       /\ groupInfo[zoneGroup].content = zBurst[2]

\* C9 (amended): a switchZone(C) call made while the switch to B is in
\* progress is ignored, the scene ends up showing zone B.
C9_FirstRequestWins ==
    (/\ ~isTransitioning
     /\ Len(zBurst) >= 2)
    => /\ currentZone = zBurst[1]
       /\ groupInfo[zoneGroup].content = zBurst[1]
       /\ AttachedGroups = {zoneGroup}

C9_Witness ==
    /\ ~isTransitioning
    /\ zBurst = <<"visible", "gated">>
    /\ currentZone = "visible"
    /\ groupInfo[zoneGroup].content = "visible"

\* C10: a canvas click that arrives while a zone switch is in progress does
\* nothing: the detail panel stays as it is and no state changes.
C10_ClickDuringSwitchIsNoOp ==
    [][(zLast'.op = "click" /\ isTransitioning) => UNCHANGED zoneState]_vars

\* ========================================================================
\* PROPERTIES OF THE PACE-LAYER AND FOUR-RUNGS PAGES
\* ========================================================================

\* the layers whose edge opacity was last asked to rise above the idle one
RaisedLayers == {i \in Layers : edgeTarget[i] > EdgeIdle}

\* the rungs whose ring material was last asked to rise above the baseline
RaisedRungs == {r \in RungIds : materialTarget[r][1] > MatBaseline[1]}

\* C5: one id at most is focused, and while an id is focused (also after the
\* focus moved there from another id) it is the only object whose emphasis
\* target is the raised one; every other object, the formerly focused one
\* included, has the lowered target.
C5_OneRaisedTarget ==
    /\ (page = "layers" /\ focusedLayerIndex >= 0)
       => /\ focusedLayerIndex \in Layers
          /\ RaisedLayers = {focusedLayerIndex}
          /\ \A i \in Layers :
                edgeTarget[i] = IF i = focusedLayerIndex THEN EdgeFocused
                                ELSE EdgeUnfocused
    /\ (page = "rungs" /\ focusedRung # "null")
       => /\ focusedRung \in RungIds
          /\ RaisedRungs = {focusedRung}
          /\ \A r \in RungIds :
                materialTarget[r] = IF r = focusedRung THEN MatFocused
                                    ELSE MatDimmed

C5_Witness ==
    /\ page = "layers"
    /\ lLast.op = "click"
    /\ lLast.was >= 0
    /\ focusedLayerIndex >= 0
    /\ focusedLayerIndex # lLast.was
    /\ edgeTarget[lLast.was] = EdgeUnfocused
    /\ edgeTarget[focusedLayerIndex] = EdgeFocused

\* no tween on camera.position or controls.target is alive
CameraAtRest ==
    \A k \in 1..Len(rTweens) :
        rTweens[k].obj \notin {"camera.position", "controls.target"}

\* C6: of two camera transitions where the second is requested before the
\* first has ended, the second wins: once no camera animation runs any more
\* the camera position and look-at target are those of the last request.
C6_CameraLastWriterWins ==
    (page = "rungs" /\ CameraAtRest)
    => /\ cameraPosition = cameraRequest.position
       /\ controlsTarget = cameraRequest.target

\* C7: a call with an id that does not exist (switchZone with a zone that is
\* no key of ZONES, setViewMode with a mode that is no key of CAMERA_PRESETS)
\* leaves all state unchanged and starts no transition.
C7_UnknownIdRejected ==
    [][/\ (page = "zones" /\ zLast'.op = "switchZone" /\ zLast'.arg \notin ZONES)
          => UNCHANGED zoneState
       /\ (page = "rungs" /\ rLast'.op = "setViewMode"
                          /\ rLast'.arg \notin DOMAIN CAMERA_PRESETS)
          => UNCHANGED rungState]_vars

\* C11: while a layer is focused a pointer move changes nothing: not
\* hoveredLayerIndex, not the cursor, not any layer's emphasis target, and it
\* starts no opacity tween, wherever the pointer is.
C11_HoverSkippedWhileFocused ==
    [][(lLast'.op = "hover" /\ focusedLayerIndex >= 0)
        => UNCHANGED layerState]_vars

C11_Witness ==
    /\ page = "layers"
    /\ lLast.op = "hover"
    /\ focusedLayerIndex >= 0
    /\ lLast.hit >= 0
    /\ lLast.hit # focusedLayerIndex
    /\ lLast.hit # hoveredLayerIndex

\* C12: from a focused state every dismiss action (a click that hits no
\* interactable, the Escape key, the close control) ends with nothing focused
\* and nothing hovered, on the pace-layer page and on the four-rungs page.
C12_DismissLeadsToIdle ==
    [][/\ (/\ page = "layers"
           /\ focusedLayerIndex >= 0
           /\ \/ lLast'.op = "close"
              \/ lLast'.op = "click" /\ lLast'.hit = -1)
          => /\ focusedLayerIndex' = -1
             /\ hoveredLayerIndex' = -1
       /\ (/\ page = "rungs"
           /\ focusedRung # "null"
           /\ \/ rLast'.op = "clearFocus"
              \/ rLast'.op = "keydown" /\ rLast'.arg = "Escape"
              \/ rLast'.op = "click" /\ rLast'.arg = "none")
          => focusedRung' = "null"]_vars

\* the last call left a focused state through clearFocus (Escape or the
\* close control)
LeftFocus == rLeft # "null"

\* C13: once the animations have finished after focus was left with
\* clearFocus, the camera position and look-at target are those of
\* CAMERA_PRESETS[currentView].
C13_CameraReturnsToPreset ==
    (/\ page = "rungs"
     /\ LeftFocus
     /\ currentView \in DOMAIN CAMERA_PRESETS
     /\ rTweens = <<>>)
    => /\ cameraPosition = CAMERA_PRESETS[currentView].position
       /\ controlsTarget = CAMERA_PRESETS[currentView].target

\* C14: a call with the value that is current already leaves the active
\* zone, the transition guard, the view, the focused rung and the flow
\* direction as they were: switchZone(currentZone), setViewMode(currentView),
\* focusOnRung(the focused rung), clearFocus() with nothing focused.
C14_CurrentValueIsNoOp ==
    [][/\ (page = "zones" /\ zLast'.op = "switchZone" /\ zLast'.arg = currentZone)
          => UNCHANGED <<currentZone, isTransitioning, gateOpenAmount>>
       /\ (/\ page = "rungs"
           /\ \/ rLast'.op = "setViewMode" /\ rLast'.arg = currentView
              \/ rLast'.op = "focusOnRung" /\ rLast'.arg = focusedRung
              \/ rLast'.op = "clearFocus" /\ focusedRung = "null")
          => UNCHANGED <<currentView, focusedRung, flowDirection>>]_vars

\* C15: when the ray of a click or of a pointer move intersects several hit
\* targets, the one of smallest radius is picked, in whatever order the
\* intersections are reported: on the pace-layer page by click and by hover,
\* on the four-rungs page by click.
C15_SmallestRadiusPicked ==
    [][/\ (page = "layers" /\ lLast'.op = "click" /\ lLast'.smallest >= 0)
          => focusedLayerIndex' = lLast'.smallest
       /\ (/\ page = "layers"
           /\ lLast'.op = "hover"
           /\ lLast'.smallest >= 0
           /\ focusedLayerIndex < 0)
          => hoveredLayerIndex' = lLast'.smallest
       /\ (page = "rungs" /\ rLast'.op = "click" /\ rLast'.smallest # "none")
          => focusedRung' = rLast'.smallest]_vars

\* C16: during a zone switch the gate controls change their visibility only
\* once the incoming zone's group has been built and attached, never while
\* the outgoing zone's group is still attached.
C16_ControlsFollowBuild ==
    [][controlsVisible' # controlsVisible
        => /\ zFrom'.group \notin AttachedGroups'
           /\ zoneGroup' \in AttachedGroups'
           /\ groupInfo'[zoneGroup'].content = currentZone']_vars

\* ========================================================================
\* PROPERTIES OF THE COMPLEMENTARITY PAGE
\* ========================================================================

Abs(n) == IF n < 0 THEN 0 - n ELSE n

\* from a to a2 is one smoothing step toward t: by the fixed fraction of the
\* remaining distance, not past t, and not onto t at once from further away
\* than the fraction resolves
SmoothStep(a, a2, t) ==
    /\ a2 = a + (t - a) \div SmoothingDivisor
    /\ Abs(t - a2) <= Abs(t - a)
    /\ (a2 = t /\ a # t) => Abs(t - a) < SmoothingDivisor

\* C17: in every frame each emphasised attribute of every object (scale,
\* opacity, emissive intensity) makes one smoothing step toward the target
\* its hover state gives it; none jumps onto a new target in one frame.
C17_EmphasisIsSmoothed ==
    [][cLast' = "frame"
        => \A u \in Unobservables :
              /\ SmoothStep(orbScale[u], orbScale'[u],
                            IF hoveredUnobservable = u THEN ScaleHovered
                            ELSE ScaleIdle)
              /\ SmoothStep(orbOpacity[u], orbOpacity'[u],
                            IF hoveredUnobservable = u THEN OpacityHovered
                            ELSE OpacityIdle)
              /\ SmoothStep(orbEmissive[u], orbEmissive'[u],
                            IF hoveredUnobservable = u THEN EmissiveHovered
                            ELSE EmissiveIdle)]_vars

\* ========================================================================
\* PROPERTIES OF THE LABELS
\* ========================================================================

\* C18: in every frame in which a layer is focused the label classes follow
\* the focused index alone: the focused layer's label is marked 'hovered',
\* every other label 'dimmed', whatever hoveredLayerIndex holds.
C18_FocusBeforeHoverInLabels ==
    [][(lLast'.op = "tick" /\ focusedLayerIndex >= 0)
        => \A i \in Layers :
              /\ labelClasses'[i].hovered = (i = focusedLayerIndex)
              /\ labelClasses'[i].dimmed = (i # focusedLayerIndex)]_vars

C18_Witness ==
    /\ page = "layers"
    /\ lLast.op = "tick"
    /\ focusedLayerIndex >= 0
    /\ hoveredLayerIndex >= 0
    /\ hoveredLayerIndex # focusedLayerIndex
    /\ labelClasses[hoveredLayerIndex] = [hovered |-> FALSE, dimmed |-> TRUE]
    /\ labelClasses[focusedLayerIndex] = [hovered |-> TRUE, dimmed |-> FALSE]

\* ========================================================================
\* PROPERTIES OF THE FRAMES
\* ========================================================================

\* the place of a step in the log of a frame, 0 when the frame has no such
\* step
StepIndex(log, step) ==
    IF \E k \in 1..Len(log) : log[k] = step
    THEN CHOOSE k \in 1..Len(log) : log[k] = step
    ELSE 0

\* the procedural animation before the picking, the label projection last
\* of the update steps and the render right after it
FrameOrderOK(log) ==
    /\ StepIndex(log, "checkHover") > 0
          => /\ StepIndex(log, "animate") > 0
             /\ StepIndex(log, "animate") < StepIndex(log, "checkHover")
    /\ Len(log) >= 2
    /\ log[Len(log)] = "render"
    /\ log[Len(log) - 1] = "updateLabels"

\* C19: in every frame the procedural animation runs before the pointer
\* picking, and the label projection is the last update step, immediately
\* before the render: on the complementarity page and on the four-rungs
\* page.
C19_LabelsLastBeforeRender ==
    /\ (page = "complementarity" /\ cLast = "frame") => FrameOrderOK(cLog)
    /\ page = "rungs" => FrameOrderOK(rFrameLog)

\* the point p is behind a camera at c that looks at t, or at the far plane
\* or beyond it
OutOfDepth(p, c, t) ==
    \/ Dot(Sub(p, c), Sub(t, c)) < 0
    \/ ViewDepth(p, c, t) >= CameraFar

\* C20: after every frame a label whose anchor lies behind the camera, or at
\* a projected depth of 1 or more, has opacity 0: the rung labels and the
\* boundary label of the four-rungs page, the layer labels of the pace-layer
\* page.
C20_LabelsFadeByDepth ==
    /\ (page = "rungs" /\ rLast.op = "tick")
          => \A l \in RLabels :
                OutOfDepth(RLabelAnchor(l), cameraPosition, controlsTarget)
                   => rLabelOpacity[l] = 0
    /\ (page = "layers" /\ lLast.op = "tick")
          => \A i \in Layers :
                OutOfDepth(LabelAnchor(i), lCamera.position, lCamera.target)
                   => LayerLabelOpacity(i) = 0

\* ========================================================================
\* PROPERTIES OF THE PROCEDURAL ANIMATION
\* ========================================================================

\* C21: the procedurally animated transforms are functions of the time
\* alone: after any number of frames each orb, each disk and the beam
\* particle is where one call of animate puts a newly created object at
\* that time.
C21_AnimationIsStateless ==
    page = "procedural"
       => /\ orbTime > 0
             => \A i \in Orbs :
                   /\ orbRotationY[i] = OrbRotationY(orbTime, i)
                   /\ orbBobPhase[i] = OrbBobPhase(orbTime, i)
          /\ diskFrames > 0
             => \A i \in Layers : diskRotationZ[i] = RotateDisk(0, i)
          /\ particleFrames > 0
             => \/ particleY = ParticleStartY - ParticleStep
                \/ particleY = ParticleStartY + ParticleStep
                \/ \E jitter \in ResetJitter :
                      particleY \in {TopY + jitter, BottomY + jitter}

\* ========================================================================
\* PROPERTIES OF THE SHARED UTILITIES
\* ========================================================================

\* C22: once the function animate returned has been invoked, between two
\* frames or from inside onUpdate, neither onUpdate nor onComplete is called
\* again.
C22_CancelStopsCallbacks == page = "helper" => ~aCalledAfterCancel

\* C23: when detach(element) returns, no handler an earlier attach installed
\* is registered on the element any more, also after attach was called twice
\* on it.
C23_DetachRemovesHandlers ==
    (page = "tooltip" /\ tLast.op = "detach")
       => listeners[tLast.element] = {}

\* ========================================================================
\* PROPERTIES OF THE INSIGHT OVERLAY AND THE DETAIL PANEL
\* ========================================================================

\* C24: once every pending timer has fired, the insight overlay is visible
\* exactly when the view mode is 'current', after any sequence of
\* setViewMode calls with any timing.
C24_InsightFollowsView ==
    (page = "rungs" /\ insightTimers = 0)
       => (insightVisible <=> currentView = "current")

\* C25: once every edge-opacity tween has finished the edge opacities match
\* the interaction state: with a layer focused its edge is at 0.4 and the
\* others at 0.02, else with a layer hovered its edge is at 0.25 and the
\* others at 0.05, else all edges are at 0.08.
C25_EdgesMatchState ==
    (page = "layers" /\ lTweens = <<>>)
       => \A i \in Layers :
             edgeOpacity[i] =
                IF focusedLayerIndex >= 0
                THEN (IF i = focusedLayerIndex THEN EdgeFocused
                      ELSE EdgeUnfocused)
                ELSE IF hoveredLayerIndex >= 0
                THEN (IF i = hoveredLayerIndex THEN EdgeHovered
                      ELSE EdgeUnhovered)
                ELSE EdgeIdle

\* C28: after every operation of the four-rungs page the detail panel is
\* visible exactly when a rung is focused.
C28_PanelFollowsFocus ==
    page = "rungs" => (rPanelVisible <=> focusedRung # "null")

\* ========================================================================
\* PROPERTIES OF THE GATE
\* ========================================================================

\* C29: in a frame with the gate closed (gateOpenAmount < 0.33) a particle
\* whose progress is strictly between 0.4 and 0.6 keeps its progress, no
\* particle's progress goes from below 0.6 to 0.6 or above, and a particle
\* outside the band advances, or wraps to 0 from above 1.
C29_ClosedGateHolds ==
    [][(page = "gate" /\ gLast' = "frame" /\ gGate < 33)
        => \A p \in GParticles :
              /\ (gProgress[p] > 40000 /\ gProgress[p] < 60000)
                    => gProgress'[p] = gProgress[p]
              /\ ~(gProgress[p] < 60000 /\ gProgress'[p] >= 60000)
              /\ ~(gProgress[p] > 40000 /\ gProgress[p] < 60000)
                    => \/ gProgress'[p] > gProgress[p]
                       \/ gProgress'[p] = 0]_vars

\* a closed gate has stopped a particle that entered the band in an earlier
\* frame
C29_Witness ==
    /\ page = "gate"
    /\ gLast = "frame"
    /\ gGate < 33
    /\ gFrames >= 2
    /\ \E p \in GParticles : gProgress[p] = 40030 /\ gSpeed[p] = 400

\* ========================================================================
\* THE LIGHT OF THE ZONE
\* ========================================================================

\* the positions of the point lights in scene.children
PointLightsInScene ==
    {i \in 1..Len(sceneChildren) : sceneChildren[i].kind = "point"}

\* the group of the zone built last: createZone ran to its end for it
LastBuiltGroup ==
    CHOOSE g \in 1..Len(groupInfo) :
        /\ groupInfo[g].platform
        /\ \A h \in (g + 1)..Len(groupInfo) : ~groupInfo[h].platform

\* C30: after init and after any sequence of zone switches the scene holds
\* exactly one point light, the one updateZoneLight created for the zone
\* built last.
C30_OnePointLight ==
    page = "zones" =>
        /\ Cardinality(PointLightsInScene) = 1
        /\ \A i \in PointLightsInScene : sceneChildren[i].id = LastBuiltGroup

\* two switches have completed: the third zone's light is the only one
C30_Witness ==
    /\ page = "zones"
    /\ ~isTransitioning
    /\ zLast.op = "tick"
    /\ Len(groupInfo) = 3
    /\ groupInfo[3].platform
    /\ PointLight(3) \in {sceneChildren[i] : i \in 1..Len(sceneChildren)}

\* C27: whenever a switch completes (isTransitioning returns to false) the
\* gate is closed, gateOpenAmount is 0, whatever calls of updateGate came
\* between the call of switchZone and the end of the slide.
C27_GateClosedWhenSwitchCompletes ==
    [][(page = "zones" /\ isTransitioning /\ ~isTransitioning')
        => gateOpenAmount' = 0]_vars

\* ========================================================================
\* THE ANIMATOR OF A FRAME OF THE FRICTION-ZONES PAGE
\* ========================================================================

\* the fields of userData the scene of a zone gives its particles
UserDataFields(zone) ==
    CASE zone = "seamless" -> {"angle", "radius", "speed", "yOffset", "ySpeed"}
      [] zone = "visible" -> {"vertex", "orbitAngle", "orbitRadius", "orbitSpeed"}
      [] zone = "gated" -> {"lane", "height", "progress", "speed", "waiting"}
      [] zone = "human-only" -> {"type", "angle", "orbitRadius", "orbitSpeed",
                                 "y", "bobSpeed", "bobAmount", "progress",
                                 "speed"}
      [] OTHER -> {}

\* the field an animator tests before it touches a particle
AnimatorTests(zone) ==
    CASE zone = "seamless" -> "angle"
      [] zone = "visible" -> "vertex"
      [] zone = "gated" -> "progress"
      [] zone = "human-only" -> "type"
      [] OTHER -> "none"

\* animate: switch (currentZone), no case for any other value
SelectedAnimator == IF currentZone \in ZONES THEN currentZone ELSE "none"

\* the zones the particles in the list were built for
ParticleZones == {groupInfo[p[1]].content : p \in particles}

\* the animator of a frame writes userData and position of a particle that
\* carries the field it tests
AnimatorMutates(animator, built) == AnimatorTests(animator) \in UserDataFields(built)

\* C26: in every frame the animator that runs, selected by currentZone, does
\* not mutate particles built for another zone, the frames of a slide-out
\* included.
C26_AnimatorKeepsToItsZone ==
    [][(page = "zones" /\ zLast'.op = "tick")
        => \A built \in ParticleZones :
              built # SelectedAnimator => ~AnimatorMutates(SelectedAnimator, built)]_vars

====
